---- MODULE Spec2Model ----
(***************************************************************************)
(* A model of hojson (src/hojson.h), a pull-style incremental JSON parser  *)
(* working inside one caller-owned buffer, and of the driver loop of       *)
(* src/test/hojson-test.c that feeds it slices and larger buffers.         *)
(*                                                                         *)
(* Conventions of the model                                                *)
(*  - A pointer is an integer address; NULL is 0.  The working buffer      *)
(*    occupies [buffer, buffer + buffer_length); its bytes are `mem`       *)
(*    (mem[o + 1] is the byte at offset o).  The header of a node (the     *)
(*    fields parent, end, flags of hojson_node_t) is kept in `nodes`,      *)
(*    keyed by the node's offset; `mem` holds zero at header offsets of a  *)
(*    live node.  Layout is the LP64 one: sizeof(hojson_node_t) = 24,      *)
(*    offsetof(flags) = 16, offsetof(data) = 18, little-endian.            *)
(*  - A uint32_t that can exceed 2^31 - 1 (a decoded character) is kept as *)
(*    the two's-complement integer with the same 32 bits, so UINT32_MAX    *)
(*    is -1.  A size_t or uint32_t that wrapped below zero is kept as the  *)
(*    negative integer congruent to it.                                    *)
(*  - A four-byte register (stream, raw) is a sequence of four bytes in    *)
(*    memory order.                                                        *)
(*  - An access outside the working buffer or outside the input slice      *)
(*    sets `fault`; the run stops there, its outcome being undefined.      *)
(***************************************************************************)
EXTENDS Integers, Sequences, FiniteSets, TLC

\* Return codes (hojson_code_t)
HOJSON_ERROR_INVALID_INPUT == -6
HOJSON_ERROR_INTERNAL == -5
HOJSON_ERROR_INSUFFICIENT_MEMORY == -4
HOJSON_ERROR_UNEXPECTED_EOF == -3
HOJSON_ERROR_TOKEN_MISMATCH == -2
HOJSON_ERROR_SYNTAX == -1
HOJSON_NO_OP == 0
HOJSON_END_OF_DOCUMENT == 1
HOJSON_NAME == 2
HOJSON_VALUE == 3
HOJSON_OBJECT_BEGIN == 4
HOJSON_OBJECT_END == 5
HOJSON_ARRAY_BEGIN == 6
HOJSON_ARRAY_END == 7

\* Value types (hojson_type_t)
HOJSON_TYPE_NONE == 0
HOJSON_TYPE_INTEGER == 1
HOJSON_TYPE_FLOAT == 2
HOJSON_TYPE_STRING == 3
HOJSON_TYPE_BOOLEAN == 4
HOJSON_TYPE_NULL == 5

\* Parsing states
HOJSON_STATE_ERROR_INTERNAL == -5
HOJSON_STATE_ERROR_INSUFFICIENT_MEMORY == -4
HOJSON_STATE_ERROR_UNEXPECTED_EOF == -3
HOJSON_STATE_ERROR_TOKEN_MISMATCH == -2
HOJSON_STATE_ERROR_SYNTAX == -1
HOJSON_STATE_NONE == 0
HOJSON_STATE_UTF8_BOM1 == 1
HOJSON_STATE_UTF8_BOM2 == 2
HOJSON_STATE_UTF16BE_BOM == 3
HOJSON_STATE_UTF16LE_BOM == 4
HOJSON_STATE_NAME_EXPECTED == 5
HOJSON_STATE_NAME == 6
HOJSON_STATE_POST_NAME == 7
HOJSON_STATE_VALUE_EXPECTED == 8
HOJSON_STATE_STRING_VALUE == 9
HOJSON_STATE_ESCAPE == 10
HOJSON_STATE_UNICODE_1 == 11
HOJSON_STATE_UNICODE_2 == 12
HOJSON_STATE_UNICODE_3 == 13
HOJSON_STATE_UNICODE_4 == 14
HOJSON_STATE_NUMBER_VALUE == 15
HOJSON_STATE_TRUE_VALUE_T == 16
HOJSON_STATE_TRUE_VALUE_R == 17
HOJSON_STATE_TRUE_VALUE_U == 18
HOJSON_STATE_FALSE_VALUE_F == 19
HOJSON_STATE_FALSE_VALUE_A == 20
HOJSON_STATE_FALSE_VALUE_L == 21
HOJSON_STATE_FALSE_VALUE_S == 22
HOJSON_STATE_NULL_VALUE_N == 23
HOJSON_STATE_NULL_VALUE_U == 24
HOJSON_STATE_NULL_VALUE_L == 25
HOJSON_STATE_POST_VALUE == 26
HOJSON_STATE_DONE == 27

\* Node flags
HOJSON_FLAG_IS_ARRAY == 1
HOJSON_FLAG_HAS_NAME == 2
HOJSON_FLAG_COMMA == 4
HOJSON_FLAG_DECIMAL == 8
HOJSON_FLAG_EXPONENT == 16
HOJSON_FLAG_PLUS_OR_MINUS == 32
HOJSON_FLAG_MUST_POP_STACK == 64
HOJSON_FLAG_POST_VALUE_CLEAN_UP == 128
HOJSON_FLAG_INCREMENT_DEPTH == 256
HOJSON_FLAG_DECREMENT_DEPTH == 512

\* Character encodings
HOJSON_ENCODING_UNKNOWN == 0
HOJSON_ENCODING_UTF_8 == 1
HOJSON_ENCODING_UTF_16_LE == 2
HOJSON_ENCODING_UTF_16_BE == 3

\* NULL of <stddef.h>, and the layout of hojson_node_t on an LP64 build.
NULL == 0
SizeofNode == 24
FlagsOffset == 16
DataOffset == 18

\* UINT32_MAX, as the two's-complement integer with the same 32 bits.
UINT32_MAX == -1
MaxInt31 == 2147483647

\* The characters the parser tests for, by code.
CHR == [tab |-> 9, lf |-> 10, cr |-> 13, space |-> 32, quote |-> 34, plus |-> 43,
        comma |-> 44, minus |-> 45, dot |-> 46, slash |-> 47, zero |-> 48,
        nine |-> 57, colon |-> 58, upA |-> 65, upE |-> 69, upF |-> 70,
        lbracket |-> 91, backslash |-> 92, rbracket |-> 93, a |-> 97, b |-> 98,
        e |-> 101, f |-> 102, l |-> 108, n |-> 110, r |-> 114, s |-> 115,
        t |-> 116, u |-> 117, lbrace |-> 123, rbrace |-> 125,
        bs |-> 8, ff |-> 12, eacute |-> 233, ydiaeresis |-> 255, euro |-> 8364, grin |-> 128513,
        bomEF |-> 239, bomBB |-> 187, bomBF |-> 191, bomFE |-> 254, bomFF |-> 255]

(***************************************************************************)
(* Bit arithmetic on non-negative integers and on four-byte words.         *)
(***************************************************************************)
Pow2(k) == CASE k = 0 -> 1 [] k = 1 -> 2 [] k = 2 -> 4 [] k = 3 -> 8 [] k = 4 -> 16
             [] k = 5 -> 32 [] k = 6 -> 64 [] k = 7 -> 128 [] k = 8 -> 256
             [] k = 10 -> 1024 [] k = 12 -> 4096 [] k = 16 -> 65536
             [] k = 18 -> 262144 [] k = 20 -> 1048576 [] k = 24 -> 16777216

RECURSIVE BitAnd(_, _)
BitAnd(x, y) == IF x = 0 \/ y = 0 THEN 0
                ELSE (IF x % 2 = 1 /\ y % 2 = 1 THEN 1 ELSE 0) + 2 * BitAnd(x \div 2, y \div 2)

RECURSIVE BitOr(_, _)
BitOr(x, y) == IF x = 0 THEN y ELSE IF y = 0 THEN x
               ELSE (IF x % 2 = 1 \/ y % 2 = 1 THEN 1 ELSE 0) + 2 * BitOr(x \div 2, y \div 2)

\* x >> k and x << k for a non-negative x that stays below 2^31.
Shr(x, k) == x \div Pow2(k)
Shl(x, k) == x * Pow2(k)

\* (uint8_t)x
U8(x) == x % 256

\* The four bytes, in little-endian memory order, of a uint32_t below 2^31.
Word(x) == <<x % 256, (x \div 256) % 256, (x \div 65536) % 256, (x \div 16777216) % 256>>

\* The uint32_t held by four bytes, as a two's-complement integer.
WordValue(w) == (IF w[4] >= 128 THEN w[4] - 256 ELSE w[4]) * 16777216
                + w[3] * 65536 + w[2] * 256 + w[1]

WordOr(v, w) == [i \in 1..4 |-> BitOr(v[i], w[i])]
WordShl8(w) == <<0, w[1], w[2], w[3]>>
WordShl16(w) == <<0, 0, w[1], w[2]>>

\* (uint32_t)ch for a char ch holding byte b: sign-extended when char is signed.
CharToU32(b, signed) == IF signed /\ b >= 128 THEN <<b, 255, 255, 255>> ELSE <<b, 0, 0, 0>>

\* v + k modulo 2^32, for a two's-complement v and 0 <= k < 2^31.
AddU32(v, k) == IF v <= MaxInt31 - k THEN v + k
                ELSE (v - MaxInt31 - 1) + (k - MaxInt31 - 1)

HOJSON_IS_NEW_LINE(c) == c = CHR.lf \/ c = CHR.cr
HOJSON_IS_WHITESPACE(c) == c = CHR.space \/ c = CHR.tab \/ HOJSON_IS_NEW_LINE(c)
HOJSON_IS_NUMERIC(c) == c >= CHR.zero /\ c <= CHR.nine
HOJSON_IS_HEX_CHAR(c) == HOJSON_IS_NUMERIC(c) \/ (c >= CHR.a /\ c <= CHR.f)
                         \/ (c >= CHR.upA /\ c <= CHR.upF)
HOJSON_MAXIMUM(x, y) == IF x >= y THEN x ELSE y

hojson_hex_character_to_decimal(character) ==
    IF HOJSON_IS_NUMERIC(character) THEN character - CHR.zero
    ELSE IF character >= CHR.a /\ character <= CHR.f THEN character - CHR.a + 10
    ELSE IF character >= CHR.upA /\ character <= CHR.upF THEN character - CHR.upA + 10
    ELSE 0

(***************************************************************************)
(* hojson_decode_character: str is the four bytes of the stream register,  *)
(* str_length the bytes the caller says are available (negative: a size_t  *)
(* that wrapped, so larger than any count), signed the signedness of char. *)
(***************************************************************************)
DecodeLength(str, encoding) ==
    CASE encoding = HOJSON_ENCODING_UNKNOWN -> 1
      [] encoding = HOJSON_ENCODING_UTF_8 ->
            IF Shr(str[1], 7) % 2 = 0 THEN 1
            ELSE IF Shr(str[1], 5) % 8 = 6 THEN 2
            ELSE IF Shr(str[1], 4) % 16 = 14 THEN 3
            ELSE IF Shr(str[1], 3) % 32 = 30 THEN 4
            ELSE 0
      [] encoding = HOJSON_ENCODING_UTF_16_BE ->
            IF Shr(str[1], 2) % 64 = 54 /\ Shr(str[3], 2) % 64 = 55 THEN 4 ELSE 2
      [] encoding = HOJSON_ENCODING_UTF_16_LE ->
            IF Shr(str[2], 2) % 64 = 54 /\ Shr(str[4], 2) % 64 = 55 THEN 4 ELSE 2
      [] OTHER -> 0

DecodeValue(str, bytes, encoding, signed) ==
    CASE encoding = HOJSON_ENCODING_UNKNOWN -> str[1] % 256
      [] encoding = HOJSON_ENCODING_UTF_8 ->
            CASE bytes = 1 -> str[1] % 128
              [] bytes = 2 -> BitOr(Shl(str[1] % 32, 6), str[2] % 64)
              [] bytes = 3 -> BitOr(BitOr(Shl(str[1] % 16, 12), Shl(str[2] % 64, 6)),
                                    str[3] % 64)
              [] bytes = 4 -> BitOr(BitOr(Shl(str[1] % 8, 18), Shl(str[2] % 64, 12)),
                                    BitOr(Shl(str[3] % 64, 6), str[4] % 64))
              [] OTHER -> 0
      [] encoding = HOJSON_ENCODING_UTF_16_BE ->
            CASE bytes = 2 -> WordValue(WordOr(WordShl8(CharToU32(str[1], signed)),
                                               CharToU32(str[2], signed)))
              [] bytes = 4 -> AddU32(WordValue(WordOr(
                                  WordOr(Word(Shl(str[1] % 4, 18)),
                                         WordShl16(CharToU32(str[2], signed))),
                                  WordOr(Word(Shl(str[3] % 4, 8)),
                                         CharToU32(str[4], signed)))), 65536)
              [] OTHER -> 0
      [] encoding = HOJSON_ENCODING_UTF_16_LE ->
            CASE bytes = 2 -> WordValue(WordOr(WordShl8(CharToU32(str[2], signed)),
                                               CharToU32(str[1], signed)))
              [] bytes = 4 -> AddU32(WordValue(WordOr(
                                  WordOr(Word(Shl(str[2] % 4, 18)),
                                         WordShl16(CharToU32(str[1], signed))),
                                  WordOr(Word(Shl(str[4] % 4, 8)),
                                         CharToU32(str[3], signed)))), 65536)
              [] OTHER -> 0
      [] OTHER -> 0

hojson_decode_character(str, str_length, encoding, signed) ==
    LET bytes == DecodeLength(str, encoding) IN
    IF str_length >= 0 /\ bytes > str_length
    THEN [raw |-> <<0, 0, 0, 0>>, value |-> UINT32_MAX, bytes |-> 0]
    ELSE [raw   |-> [i \in 1..4 |-> IF i <= bytes THEN str[i] ELSE 0],
          value |-> DecodeValue(str, bytes, encoding, signed),
          bytes |-> bytes]

(***************************************************************************)
(* hojson_encode_character: value is a uint32_t (two's complement).        *)
(***************************************************************************)
\* A surrogate, or a value above 0x10FFFF, encoded as U+FFFD
EncodedAsReplacement(value) ==
    [raw |-> <<239, 191, 189, 0>>, value |-> value, bytes |-> 3]

\* Lines 1102-1104: a value that has no UTF-8 encoding gives no bytes
NotEncoded(value) == [raw |-> <<0, 0, 0, 0>>, value |-> value, bytes |-> 0]

EncodeUtf8(value) ==
    IF value >= 0 /\ value <= 127
    THEN [raw |-> Word(value), value |-> value, bytes |-> 1]
    ELSE IF value >= 128 /\ value <= 2047
    THEN [raw |-> <<BitOr(192, U8(Shr(BitAnd(value, 1984), 6))),
                    BitOr(128, U8(BitAnd(value, 255))), 0, 0>>,
          value |-> value, bytes |-> 2]
    ELSE IF (value >= 2048 /\ value <= 55295) \/ (value >= 57344 /\ value <= 65535)
    THEN [raw |-> <<BitOr(224, U8(Shr(BitAnd(value, 61440), 12))),
                    BitOr(128, U8(Shr(BitAnd(value, 4032), 6))),
                    BitOr(128, U8(BitAnd(value, 63))), 0>>,
          value |-> value, bytes |-> 3]
    ELSE IF value >= 65536 /\ value <= 1114111
    THEN [raw |-> <<BitOr(240, U8(Shr(BitAnd(value, 1835008), 18))),
                    BitOr(128, U8(Shr(BitAnd(value, 258048), 12))),
                    BitOr(128, U8(Shr(BitAnd(value, 4032), 6))),
                    BitOr(128, U8(BitAnd(value, 63)))>>,
          value |-> value, bytes |-> 4]
    ELSE NotEncoded(value)

\* The bytes of a UTF-16 character in big-endian order; the little-endian
\* case stores the same four values at the mirrored indexes.
EncodeUtf16Units(value) ==
    IF (value >= 0 /\ value <= 55295) \/ (value >= 57344 /\ value <= 65535)
    THEN [units |-> <<U8(Shr(BitAnd(value, 65280), 8)), U8(BitAnd(value, 255))>>, bytes |-> 2]
    ELSE IF value >= 65536 /\ value <= 1114111
    THEN LET v == value - 65536 IN
         [units |-> <<BitOr(216, U8(Shr(BitAnd(v, 786432), 20))),
                      U8(Shr(BitAnd(v, 261120), 18)),
                      BitOr(220, U8(Shr(BitAnd(v, 768), 8))),
                      U8(BitAnd(v, 255))>>,
          bytes |-> 4]
    ELSE [units |-> <<>>, bytes |-> 0]

hojson_encode_character(value, encoding) ==
    CASE encoding = HOJSON_ENCODING_UNKNOWN \/ encoding = HOJSON_ENCODING_UTF_8 ->
            EncodeUtf8(value)
      [] encoding = HOJSON_ENCODING_UTF_16_BE ->
            LET e == EncodeUtf16Units(value) IN
            [raw |-> [i \in 1..4 |-> IF i <= e.bytes THEN e.units[i] ELSE 0],
             value |-> value, bytes |-> e.bytes]
      [] encoding = HOJSON_ENCODING_UTF_16_LE ->
            LET e == EncodeUtf16Units(value) IN
            [raw |-> [i \in 1..4 |-> IF i <= e.bytes THEN e.units[e.bytes + 1 - i] ELSE 0],
             value |-> value, bytes |-> e.bytes]
      [] OTHER -> [raw |-> <<0, 0, 0, 0>>, value |-> value, bytes |-> 0]

\* The double 0.0: float_value is kept as the text atof is handed, and this is
\* the value before any text was converted
FloatZero == <<>>

(***************************************************************************)
(* Flags of a node: a uint16_t used as a bit set.                          *)
(***************************************************************************)
HasFlag(flags, flag) == (flags \div flag) % 2 = 1
SetFlag(flags, flag) == IF HasFlag(flags, flag) THEN flags ELSE flags + flag
ClearFlag(flags, flag) == IF HasFlag(flags, flag) THEN flags - flag ELSE flags

RECURSIVE ClearFlags(_, _)
ClearFlags(flags, list) ==
    IF list = <<>> THEN flags ELSE ClearFlags(ClearFlag(flags, Head(list)), Tail(list))

(***************************************************************************)
(* The parser's memory.  P is the record of a hojson_context_t (same field *)
(* names) together with the contents of the buffer it works in (mem,       *)
(* nodes) and, for the operators that model a C function, what the         *)
(* function returned (returned, ret) and whether it left the memory it was *)
(* given (fault).                                                          *)
(***************************************************************************)
Zeros(n) == [i \in 1..n |-> 0]

InBuffer(P, addr, count) ==
    count = 0 \/ (addr >= P.buffer /\ addr + count <= P.buffer + P.buffer_length)

Fault(P) == [P EXCEPT !.fault = TRUE]

\* memcpy(addr, bytes, Len(bytes)) into the buffer
MemCopy(P, addr, bytes) ==
    IF ~InBuffer(P, addr, Len(bytes)) THEN Fault(P)
    ELSE LET o == addr - P.buffer IN
         [P EXCEPT !.mem = [i \in 1..Len(P.mem) |->
                               IF i > o /\ i <= o + Len(bytes) THEN bytes[i - o] ELSE P.mem[i]]]

\* memset(addr, 0, count) in the buffer; a node header lying in the range is erased
MemZero(P, addr, count) ==
    IF count < 0 \/ ~InBuffer(P, addr, count) THEN Fault(P)
    ELSE LET o == addr - P.buffer
             kept == {k \in DOMAIN P.nodes : k < o \/ k >= o + count} IN
         [P EXCEPT !.mem = [i \in 1..Len(P.mem) |->
                               IF i > o /\ i <= o + count THEN 0 ELSE P.mem[i]],
                   !.nodes = [k \in kept |-> P.nodes[k]]]

\* HOJSON_STACK: the header of the node context->stack points to
StackValid(P) == P.stack # NULL /\ (P.stack - P.buffer) \in DOMAIN P.nodes
HOJSON_STACK(P) == P.nodes[P.stack - P.buffer]
NodeAt(P, addr) == P.nodes[addr - P.buffer]
NodeValid(P, addr) == addr # NULL /\ (addr - P.buffer) \in DOMAIN P.nodes

\* &(HOJSON_STACK->data)
StackData(P) == P.stack + DataOffset

SetStackFlags(P, flags) == [P EXCEPT !.nodes[P.stack - P.buffer].flags = flags]
SetStackEnd(P, end) == [P EXCEPT !.nodes[P.stack - P.buffer].end = end]

Return(P, code) == [P EXCEPT !.returned = TRUE, !.ret = code]

\* A variant of hojson_stay that rewinds by one byte more than was iterated
StayFurtherBack(P) ==
    [P EXCEPT !.iterator = P.iterator - P.bytes_iterated - 1, !.column = P.column - 1]

hojson_stay(P) ==
    [P EXCEPT !.iterator = P.iterator - P.bytes_iterated, !.column = P.column - 1]

\* The flags a fresh node starts with: push_stack does not assign them, so
\* they are the two bytes found in the buffer at the node's flags field.
StaleFlags(P, o) == P.mem[o + FlagsOffset + 1] + 256 * P.mem[o + FlagsOffset + 2]

hojson_push_stack(P) ==
    IF (P.stack = NULL /\ SizeofNode >= P.buffer_length)
       \/ (P.stack # NULL /\ HOJSON_STACK(P).end + 1 + SizeofNode >= P.buffer + P.buffer_length)
    THEN [P EXCEPT !.error_return_state = P.state,
                   !.state = HOJSON_STATE_ERROR_INSUFFICIENT_MEMORY]
    ELSE LET node == IF P.stack = NULL THEN P.buffer ELSE HOJSON_STACK(P).end + 1
             o == node - P.buffer
             header == [parent |-> P.stack, end |-> node + DataOffset - 1,
                        flags |-> StaleFlags(P, o)] IN
         IF ~InBuffer(P, node, SizeofNode) THEN Fault(P)
         ELSE [P EXCEPT !.mem = [i \in 1..Len(P.mem) |->
                                    IF i > o /\ i <= o + DataOffset THEN 0 ELSE P.mem[i]],
                        !.nodes = (o :> header) @@ P.nodes,
                        !.stack = node]

hojson_pop_stack(P) ==
    IF P.stack = NULL THEN P
    ELSE LET popped == P.stack
             node == HOJSON_STACK(P) IN
         IF node.end - popped + 1 < 0 THEN Fault(P)
         ELSE MemZero([P EXCEPT !.stack = node.parent], popped,
                      HOJSON_MAXIMUM(SizeofNode, node.end - popped + 1))

\* c is a hojson_character_t: the first c.bytes bytes of c.raw are appended
hojson_append_character(P, c) ==
    IF HOJSON_STACK(P).end + c.bytes >= P.buffer + P.buffer_length
    THEN LET Q == hojson_stay(P) IN
         [Q EXCEPT !.error_return_state = Q.state,
                   !.state = HOJSON_STATE_ERROR_INSUFFICIENT_MEMORY,
                   !.ret = HOJSON_ERROR_INSUFFICIENT_MEMORY]
    ELSE LET Q == MemCopy(P, HOJSON_STACK(P).end + 1, SubSeq(c.raw, 1, c.bytes)) IN
         IF Q.fault THEN Q
         ELSE [SetStackEnd(Q, HOJSON_STACK(P).end + c.bytes) EXCEPT !.ret = HOJSON_NO_OP]

hojson_append_terminator(P) ==
    LET bytes == IF P.encoding >= HOJSON_ENCODING_UTF_16_BE THEN 2 ELSE 1 IN
    IF HOJSON_STACK(P).end + bytes >= P.buffer + P.buffer_length
    THEN LET Q == hojson_stay(P) IN
         [Q EXCEPT !.error_return_state = Q.state,
                   !.state = HOJSON_STATE_ERROR_INSUFFICIENT_MEMORY,
                   !.ret = HOJSON_ERROR_INSUFFICIENT_MEMORY]
    ELSE LET Q == MemCopy(P, HOJSON_STACK(P).end + 1, Zeros(bytes)) IN
         IF Q.fault THEN Q
         ELSE [SetStackEnd(Q, HOJSON_STACK(P).end + bytes) EXCEPT !.ret = HOJSON_NO_OP]

\* A variant of TokenName that gives the name of the node on top whether or
\* not the node holds one
TokenNameOfAnyNode(P) == IF P.stack # NULL THEN StackData(P) ELSE NULL

\* Lines 892-895: the name an object or array begins with
TokenName(P) ==
    IF P.stack # NULL /\ HasFlag(HOJSON_STACK(P).flags, HOJSON_FLAG_HAS_NAME)
    THEN StackData(P) ELSE NULL

hojson_begin_token(P, token) ==
    LET P1 == [P EXCEPT !.name = TokenName(P),
                        !.string_value = NULL,
                        !.integer_value = 0,
                        !.float_value = FloatZero,
                        !.bool_value = 0]
        P2 == hojson_push_stack(P1) IN
    IF P2.fault THEN P2
    ELSE IF P2.state >= HOJSON_STATE_NONE
    THEN LET flags == SetFlag(SetFlag(HOJSON_STACK(P2).flags, HOJSON_FLAG_POST_VALUE_CLEAN_UP),
                              HOJSON_FLAG_INCREMENT_DEPTH) IN
         IF token = CHR.lbrace
         THEN Return([SetStackFlags(P2, flags) EXCEPT !.state = HOJSON_STATE_NAME_EXPECTED],
                     HOJSON_OBJECT_BEGIN)
         ELSE IF token = CHR.lbracket
         THEN Return([SetStackFlags(P2, SetFlag(flags, HOJSON_FLAG_IS_ARRAY))
                         EXCEPT !.state = HOJSON_STATE_VALUE_EXPECTED],
                     HOJSON_ARRAY_BEGIN)
         ELSE Return([SetStackFlags(P2, flags) EXCEPT !.state = HOJSON_STATE_ERROR_INTERNAL],
                     HOJSON_ERROR_INTERNAL)
    ELSE Return(hojson_stay(P2), HOJSON_ERROR_INSUFFICIENT_MEMORY)

\* A variant of TokenMismatch that lets any closer close any container
AnyCloserCloses(P, token) == FALSE

\* A variant of TokenMismatch that gives way to the test of the comma
MismatchUnlessComma(P, token) ==
    LET isArray == HasFlag(HOJSON_STACK(P).flags, HOJSON_FLAG_IS_ARRAY) IN
    /\ ~HasFlag(HOJSON_STACK(P).flags, HOJSON_FLAG_COMMA)
    /\ (isArray /\ token # CHR.rbracket) \/ (~isArray /\ token # CHR.rbrace)

\* Lines 926-927: the closer is not the one the container on top was opened for
TokenMismatch(P, token) ==
    LET isArray == HasFlag(HOJSON_STACK(P).flags, HOJSON_FLAG_IS_ARRAY) IN
    (isArray /\ token # CHR.rbracket) \/ (~isArray /\ token # CHR.rbrace)

\* A variant of ClosedAfterComma that forgets the comma
CommaForgotten(P) == FALSE

\* Line 931: the closer directly follows a comma
ClosedAfterComma(P) == HasFlag(HOJSON_STACK(P).flags, HOJSON_FLAG_COMMA)

\* A variant of EndCode that reports every closed container as an object
EndCodeOfObject(P) == HOJSON_OBJECT_END

\* Lines 956-959: the code returned for the container that closed
EndCode(P) ==
    IF HasFlag(HOJSON_STACK(P).flags, HOJSON_FLAG_IS_ARRAY) THEN HOJSON_ARRAY_END
    ELSE HOJSON_OBJECT_END

hojson_end_token(P, token) ==
    LET top == HOJSON_STACK(P) IN
    IF TokenMismatch(P, token)
    THEN Return([P EXCEPT !.state = HOJSON_STATE_ERROR_TOKEN_MISMATCH],
                HOJSON_ERROR_TOKEN_MISMATCH)
    ELSE IF ClosedAfterComma(P)
    THEN Return([P EXCEPT !.state = HOJSON_STATE_ERROR_SYNTAX], HOJSON_ERROR_SYNTAX)
    ELSE LET flags == SetFlag(SetFlag(top.flags, HOJSON_FLAG_MUST_POP_STACK),
                              HOJSON_FLAG_DECREMENT_DEPTH)
             P1 == [SetStackFlags(P, flags) EXCEPT !.state = HOJSON_STATE_POST_VALUE,
                                                   !.name = NULL]
             P2 == IF top.parent = NULL THEN P1
                   ELSE IF ~NodeValid(P1, top.parent) THEN Fault(P1)
                   ELSE LET po == top.parent - P1.buffer
                            pf == P1.nodes[po].flags IN
                        [P1 EXCEPT !.name = IF HasFlag(pf, HOJSON_FLAG_HAS_NAME)
                                            THEN top.parent + DataOffset ELSE NULL,
                                   !.nodes[po].flags =
                                       SetFlag(pf, HOJSON_FLAG_POST_VALUE_CLEAN_UP)] IN
         Return(P2, EndCode(P))

(***************************************************************************)
(* Values of the C library conversions.  atoi is computed on the bytes it  *)
(* reads.  atof is not computed: float_value is kept as the text the       *)
(* conversion is handed (the bytes at string_value up to the first zero    *)
(* byte), FloatZero standing for 0.0.                                      *)
(***************************************************************************)

\* The bytes from addr up to, not including, the first zero byte.  Reading
\* stops at the end of the buffer (ok is then FALSE).
RECURSIVE CString(_, _)
CString(P, addr) ==
    IF ~InBuffer(P, addr, 1) THEN [s |-> <<>>, ok |-> FALSE]
    ELSE LET byte == P.mem[addr - P.buffer + 1] IN
         IF byte = 0 THEN [s |-> <<>>, ok |-> TRUE]
         ELSE LET rest == CString(P, addr + 1) IN
              [s |-> <<byte>> \o rest.s, ok |-> rest.ok]

RECURSIVE AtoiDigits(_, _)
AtoiDigits(s, acc) ==
    IF s = <<>> \/ ~HOJSON_IS_NUMERIC(Head(s)) THEN acc
    ELSE AtoiDigits(Tail(s), acc * 10 + (Head(s) - CHR.zero))

atoi(s) ==
    IF s # <<>> /\ Head(s) = CHR.minus THEN 0 - AtoiDigits(Tail(s), 0)
    ELSE IF s # <<>> /\ Head(s) = CHR.plus THEN AtoiDigits(Tail(s), 0)
    ELSE AtoiDigits(s, 0)

(***************************************************************************)
(* hojson_init and hojson_realloc                                          *)
(***************************************************************************)
ZeroContext ==
    [name |-> NULL, string_value |-> NULL, integer_value |-> 0, float_value |-> FloatZero,
     bool_value |-> 0, value_type |-> HOJSON_TYPE_NONE, line |-> 0, column |-> 0,
     depth |-> 0, is_initialized |-> 0, json |-> NULL, json_length |-> 0,
     encoding |-> HOJSON_ENCODING_UNKNOWN, iterator |-> NULL, bytes_iterated |-> 0,
     buffer |-> NULL, buffer_length |-> 0, state |-> HOJSON_STATE_NONE,
     escape_return_state |-> HOJSON_STATE_NONE, error_return_state |-> HOJSON_STATE_NONE,
     stack |-> NULL, stream |-> <<0, 0, 0, 0>>, stream_length |-> 0,
     newline_character |-> 0,
     mem |-> <<>>, nodes |-> <<>>, returned |-> FALSE, ret |-> HOJSON_NO_OP,
     fault |-> FALSE]

hojson_init(P, buffer, buffer_length) ==
    IF buffer = NULL \/ buffer_length <= 0 THEN P
    ELSE [ZeroContext EXCEPT !.buffer = buffer, !.buffer_length = buffer_length,
                             !.line = 1, !.is_initialized = 1,
                             !.mem = Zeros(buffer_length)]

\* The offsets of the nodes hojson_realloc visits: from the top of the stack
\* along the parent links.
RECURSIVE NodeChain(_, _, _)
NodeChain(P, addr, fuel) ==
    IF addr = NULL \/ fuel = 0 \/ ~NodeValid(P, addr) THEN <<>>
    ELSE <<addr - P.buffer>> \o NodeChain(P, NodeAt(P, addr).parent, fuel - 1)

\* A variant of Rebase that leaves the pointer in the buffer given up
LeftBehind(P, buffer, ptr) == ptr

\* Lines 280-292: a pointer into the buffer, moved to the same offset of the
\* new one
Rebase(P, buffer, ptr) == buffer + (ptr - P.buffer)

hojson_realloc(P, buffer, buffer_length) ==
    IF P.is_initialized = 0 \/ buffer = NULL \/ buffer_length <= P.buffer_length THEN P
    ELSE LET chain == NodeChain(P, P.stack, Cardinality(DOMAIN P.nodes))
             visited == {chain[i] : i \in 1..Len(chain)}
             nodes == [k \in DOMAIN P.nodes |->
                         IF k \in visited
                         THEN [parent |-> IF P.nodes[k].parent # NULL
                                          THEN Rebase(P, buffer, P.nodes[k].parent) ELSE NULL,
                               end    |-> Rebase(P, buffer, P.nodes[k].end),
                               flags  |-> P.nodes[k].flags]
                         ELSE P.nodes[k]]
             recovering == P.state = HOJSON_STATE_ERROR_INSUFFICIENT_MEMORY IN
         [P EXCEPT !.nodes = nodes,
                   !.name = IF P.name # NULL THEN Rebase(P, buffer, P.name) ELSE NULL,
                   !.string_value = IF P.string_value # NULL
                                    THEN Rebase(P, buffer, P.string_value) ELSE NULL,
                   !.stack = IF P.stack # NULL THEN Rebase(P, buffer, P.stack) ELSE NULL,
                   !.mem = P.mem \o Zeros(buffer_length - P.buffer_length),
                   !.buffer = buffer,
                   !.buffer_length = buffer_length,
                   !.state = IF recovering THEN P.error_return_state ELSE P.state,
                   !.error_return_state = IF recovering THEN HOJSON_STATE_NONE
                                          ELSE P.error_return_state]

(***************************************************************************)
(* hojson_parse.  json is the pointer passed, json_length the length       *)
(* passed, data the bytes the caller placed at json (Len(data) =           *)
(* json_length), signed the signedness of char in the build.               *)
(***************************************************************************)
FAULT == HOJSON_ERROR_INVALID_INPUT - 1

InSlice(json, json_length, addr, count) ==
    count = 0 \/ (addr >= json /\ addr + count <= json + json_length)

\* The stream register after the bytes of the input at `from` are brought in
\* (lines 367-372 and 403-408): avail is the count of bytes the parser takes
\* to be available at `from`.
FillStream(stream, stream_length, avail, from, json, json_length, data) ==
    LET most == IF avail >= 0 /\ avail <= 4 THEN avail ELSE 4
        bytes_to_copy == most - stream_length IN
    IF bytes_to_copy >= 0 /\ bytes_to_copy < 4
    THEN IF stream_length < 0 \/ stream_length + bytes_to_copy > 4
            \/ ~InSlice(json, json_length, from, bytes_to_copy)
         THEN [stream |-> stream, bytes_to_copy |-> bytes_to_copy, fault |-> TRUE]
         ELSE [stream |-> [i \in 1..4 |->
                             IF i > stream_length /\ i <= stream_length + bytes_to_copy
                             THEN data[from - json + (i - stream_length)] ELSE stream[i]],
               bytes_to_copy |-> bytes_to_copy, fault |-> FALSE]
    ELSE IF ~InSlice(json, json_length, from, 4)
         THEN [stream |-> stream, bytes_to_copy |-> bytes_to_copy, fault |-> TRUE]
         ELSE [stream |-> [i \in 1..4 |-> data[from - json + i]],
               bytes_to_copy |-> bytes_to_copy, fault |-> FALSE]

\* A variant of ApplyDepthFlags that leaves depth and the flags as they are
DepthFlagsLeft(P) == P

\* Lines 312-359: the work deferred from the previous call.
ApplyDepthFlags(P) ==
    LET f0 == HOJSON_STACK(P).flags
        inc == HasFlag(f0, HOJSON_FLAG_INCREMENT_DEPTH)
        dec == HasFlag(f0, HOJSON_FLAG_DECREMENT_DEPTH) IN
    [SetStackFlags(P, ClearFlags(f0, <<HOJSON_FLAG_INCREMENT_DEPTH, HOJSON_FLAG_DECREMENT_DEPTH>>))
        EXCEPT !.depth = P.depth + (IF inc THEN 1 ELSE 0) - (IF dec THEN 1 ELSE 0)]

\* A variant of PostValueCleanUp that empties the scratch and clears the flags
\* and leaves the value in the context
ValuesKept(P) ==
    LET top == HOJSON_STACK(P)
        P1 == IF top.end - StackData(P) > 0
              THEN LET Z == MemZero(P, StackData(P), top.end - StackData(P) + 1) IN
                   IF Z.fault THEN Z ELSE SetStackEnd(Z, StackData(P) - 1)
              ELSE P IN
    IF P1.fault THEN P1
    ELSE SetStackFlags(P1, ClearFlags(top.flags,
             <<HOJSON_FLAG_HAS_NAME, HOJSON_FLAG_COMMA, HOJSON_FLAG_DECIMAL,
               HOJSON_FLAG_EXPONENT, HOJSON_FLAG_PLUS_OR_MINUS,
               HOJSON_FLAG_POST_VALUE_CLEAN_UP>>))

PostValueCleanUp(P) ==
    LET top == HOJSON_STACK(P)
        P1 == IF top.end - StackData(P) > 0
              THEN LET Z == MemZero(P, StackData(P), top.end - StackData(P) + 1) IN
                   IF Z.fault THEN Z ELSE SetStackEnd(Z, StackData(P) - 1)
              ELSE P IN
    IF P1.fault THEN P1
    ELSE [SetStackFlags(P1, ClearFlags(top.flags,
              <<HOJSON_FLAG_HAS_NAME, HOJSON_FLAG_COMMA, HOJSON_FLAG_DECIMAL,
                HOJSON_FLAG_EXPONENT, HOJSON_FLAG_PLUS_OR_MINUS,
                HOJSON_FLAG_POST_VALUE_CLEAN_UP>>))
            EXCEPT !.name = NULL, !.value_type = HOJSON_TYPE_NONE, !.string_value = NULL,
                   !.integer_value = 0, !.float_value = FloatZero, !.bool_value = 0]

\* A variant of RootPopped that goes on parsing
GoOnAfterRoot(P) == P

\* A variant of RootPopped that ends the document and leaves the state as it is
EndWithoutDone(P) == Return(P, HOJSON_END_OF_DOCUMENT)

\* Lines 329-332: the node popped was the root
RootPopped(P) == Return([P EXCEPT !.state = HOJSON_STATE_DONE], HOJSON_END_OF_DOCUMENT)

DeferredWork(P) ==
    IF P.stack = NULL THEN P
    ELSE IF ~StackValid(P) THEN Fault(P)
    ELSE LET P1 == ApplyDepthFlags(P) IN
         IF HasFlag(HOJSON_STACK(P1).flags, HOJSON_FLAG_MUST_POP_STACK)
         THEN LET parent == HOJSON_STACK(P1).parent
                  P2 == hojson_pop_stack(P1) IN
              IF P2.fault THEN P2
              ELSE IF parent = NULL
              THEN RootPopped(P2)
              ELSE IF ~StackValid(P2) THEN Fault(P2)
              ELSE IF HasFlag(HOJSON_STACK(P2).flags, HOJSON_FLAG_POST_VALUE_CLEAN_UP)
              THEN PostValueCleanUp(P2) ELSE P2
         ELSE IF HasFlag(HOJSON_STACK(P1).flags, HOJSON_FLAG_POST_VALUE_CLEAN_UP)
         THEN PostValueCleanUp(P1) ELSE P1

\* A variant of StillFull that goes on parsing in the buffer that is full
FullForgotten(P) == P

\* Line 382: the buffer is as full as it was
StillFull(P) == Return(P, HOJSON_ERROR_INSUFFICIENT_MEMORY)

\* A variant of ResumeOrReturn that goes on parsing whatever the state
KeepParsing(P, json, json_length, data, signed) == P

\* Lines 361-385: the states in which hojson_parse returns at once, and the
\* recovery from "unexpected end of file".
ResumeOrReturn(P, json, json_length, data, signed) ==
    CASE P.state = HOJSON_STATE_ERROR_UNEXPECTED_EOF ->
            LET F == FillStream(P.stream, P.stream_length, json_length, json,
                                json, json_length, data) IN
            IF F.fault THEN Fault(P)
            ELSE LET c == hojson_decode_character(F.stream, json_length, P.encoding, signed) IN
                 IF c.value = 0 \/ c.value = UINT32_MAX
                 THEN Return(P, HOJSON_ERROR_UNEXPECTED_EOF)
                 ELSE [P EXCEPT !.state = P.error_return_state,
                                !.error_return_state = HOJSON_STATE_NONE]
      [] P.state = HOJSON_STATE_DONE -> Return(P, HOJSON_END_OF_DOCUMENT)
      [] P.state = HOJSON_STATE_ERROR_INTERNAL -> Return(P, HOJSON_ERROR_INTERNAL)
      [] P.state = HOJSON_STATE_ERROR_INSUFFICIENT_MEMORY -> StillFull(P)
      [] P.state = HOJSON_STATE_ERROR_TOKEN_MISMATCH -> Return(P, HOJSON_ERROR_TOKEN_MISMATCH)
      [] P.state = HOJSON_STATE_ERROR_SYNTAX -> Return(P, HOJSON_ERROR_SYNTAX)
      [] OTHER -> P

\* Lines 387-392
AdoptInput(P, json, json_length) ==
    IF P.json # json
    THEN [P EXCEPT !.json = json, !.json_length = json_length, !.iterator = json]
    ELSE P

(***************************************************************************)
(* The cases of the switch on context->state (lines 444-814).  Each takes  *)
(* the context after the character c was consumed and gives the context    *)
(* at the end of the case; `returned` tells whether hojson_parse returns   *)
(* there.                                                                  *)
(***************************************************************************)
Goto(P, state) == [P EXCEPT !.state = state]
\* A variant of Syntax that passes over the character as over whitespace
PassedOver(P) == P

Syntax(P) == Goto(P, HOJSON_STATE_ERROR_SYNTAX)

\* "code = hojson_append_...(); if (code < HOJSON_NO_OP) return code;"
ReturnIfFailed(Q) == IF Q.ret < HOJSON_NO_OP THEN Return(Q, Q.ret) ELSE Q

\* A variant of ValueDone that leaves the value without a type
ValueDoneUntyped(P) ==
    Return(Goto(SetStackFlags([P EXCEPT !.value_type = HOJSON_TYPE_NONE],
                              SetFlag(HOJSON_STACK(P).flags, HOJSON_FLAG_POST_VALUE_CLEAN_UP)),
                HOJSON_STATE_POST_VALUE),
           HOJSON_VALUE)

\* A value was completed: lines 565-568, 733-737, 765-769, 790-793
ValueDone(P) ==
    Return(Goto(SetStackFlags(P, SetFlag(HOJSON_STACK(P).flags, HOJSON_FLAG_POST_VALUE_CLEAN_UP)),
                HOJSON_STATE_POST_VALUE),
           HOJSON_VALUE)

StateNone(P, c) ==
    IF c.value = CHR.lbrace \/ c.value = CHR.lbracket THEN hojson_begin_token(P, c.value)
    ELSE IF c.value = CHR.bomEF
    THEN [P EXCEPT !.state = HOJSON_STATE_UTF8_BOM1, !.column = P.column - 1]
    ELSE IF c.value = CHR.bomFE
    THEN [P EXCEPT !.state = HOJSON_STATE_UTF16BE_BOM, !.column = P.column - 1]
    ELSE IF c.value = CHR.bomFF
    THEN [P EXCEPT !.state = HOJSON_STATE_UTF16LE_BOM, !.column = P.column - 1]
    ELSE IF ~HOJSON_IS_WHITESPACE(c.value) THEN Syntax(P)
    ELSE P

StateBom(P, c) ==
    LET Q == [P EXCEPT !.column = P.column - 1] IN
    CASE P.state = HOJSON_STATE_UTF8_BOM1 ->
            IF c.value = CHR.bomBB THEN Goto(Q, HOJSON_STATE_UTF8_BOM2) ELSE Syntax(Q)
      [] P.state = HOJSON_STATE_UTF8_BOM2 ->
            IF c.value = CHR.bomBF
            THEN [Q EXCEPT !.state = HOJSON_STATE_NONE, !.encoding = HOJSON_ENCODING_UTF_8]
            ELSE Syntax(Q)
      [] P.state = HOJSON_STATE_UTF16BE_BOM ->
            IF c.value = CHR.bomFF
            THEN [Q EXCEPT !.state = HOJSON_STATE_NONE, !.encoding = HOJSON_ENCODING_UTF_16_BE]
            ELSE Syntax(Q)
      [] P.state = HOJSON_STATE_UTF16LE_BOM ->
            IF c.value = CHR.bomFE
            THEN [Q EXCEPT !.state = HOJSON_STATE_NONE, !.encoding = HOJSON_ENCODING_UTF_16_LE]
            ELSE Syntax(Q)

StateNameExpected(P, c) ==
    IF c.value = CHR.quote
    THEN Goto(SetStackFlags(P, SetFlag(HOJSON_STACK(P).flags, HOJSON_FLAG_HAS_NAME)),
              HOJSON_STATE_NAME)
    ELSE IF c.value = CHR.rbrace \/ c.value = CHR.rbracket THEN hojson_end_token(P, c.value)
    ELSE IF ~HOJSON_IS_WHITESPACE(c.value) THEN Syntax(P)
    ELSE P

StateName(P, c) ==
    IF c.value = CHR.quote
    THEN LET Q == hojson_append_terminator(P) IN
         IF Q.fault THEN Q
         ELSE IF Q.ret < HOJSON_NO_OP THEN Return(Q, Q.ret)
         ELSE Return([Q EXCEPT !.name = StackData(Q), !.state = HOJSON_STATE_POST_NAME],
                     HOJSON_NAME)
    ELSE IF c.value = CHR.backslash
    THEN [P EXCEPT !.escape_return_state = P.state, !.state = HOJSON_STATE_ESCAPE]
    ELSE ReturnIfFailed(hojson_append_character(P, c))

StatePostName(P, c) ==
    IF c.value = CHR.colon THEN Goto(P, HOJSON_STATE_VALUE_EXPECTED)
    ELSE IF ~HOJSON_IS_WHITESPACE(c.value) THEN Syntax(P)
    ELSE P

StateValueExpected(P, c) ==
    IF c.value = CHR.quote
    THEN [P EXCEPT !.string_value = HOJSON_STACK(P).end + 1,
                   !.state = HOJSON_STATE_STRING_VALUE]
    ELSE IF HOJSON_IS_NUMERIC(c.value) \/ c.value = CHR.minus
    THEN LET Q == hojson_append_character(
                      [P EXCEPT !.string_value = HOJSON_STACK(P).end + 1], c) IN
         IF Q.fault THEN Q
         ELSE IF Q.ret < HOJSON_NO_OP THEN Return(Q, Q.ret)
         ELSE Goto(Q, HOJSON_STATE_NUMBER_VALUE)
    ELSE IF c.value = CHR.t THEN Goto(P, HOJSON_STATE_TRUE_VALUE_T)
    ELSE IF c.value = CHR.f THEN Goto(P, HOJSON_STATE_FALSE_VALUE_F)
    ELSE IF c.value = CHR.n THEN Goto(P, HOJSON_STATE_NULL_VALUE_N)
    ELSE IF c.value = CHR.lbrace \/ c.value = CHR.lbracket THEN hojson_begin_token(P, c.value)
    ELSE IF c.value = CHR.rbrace \/ c.value = CHR.rbracket THEN hojson_end_token(P, c.value)
    ELSE IF ~HOJSON_IS_WHITESPACE(c.value) THEN Syntax(P)
    ELSE P

StateStringValue(P, c) ==
    IF c.value = CHR.quote
    THEN ValueDone([P EXCEPT !.value_type = HOJSON_TYPE_STRING])
    ELSE IF c.value = CHR.backslash
    THEN [P EXCEPT !.escape_return_state = P.state, !.state = HOJSON_STATE_ESCAPE]
    ELSE ReturnIfFailed(hojson_append_character(P, c))

\* The character an escape stands for; NULL for 'u' and for any other character
EscapedCharacter(v) ==
    CASE v = CHR.quote -> CHR.quote
      [] v = CHR.backslash -> CHR.backslash
      [] v = CHR.slash -> CHR.slash
      [] v = CHR.b -> CHR.bs
      [] v = CHR.f -> CHR.ff
      [] v = CHR.n -> CHR.lf
      [] v = CHR.r -> CHR.cr
      [] v = CHR.t -> CHR.tab
      [] OTHER -> NULL

StateEscape(P, c) ==
    IF c.value = CHR.u THEN Goto(P, HOJSON_STATE_UNICODE_1)
    ELSE IF EscapedCharacter(c.value) = NULL THEN Syntax(P)
    ELSE LET Q == hojson_append_character(
                      P, hojson_encode_character(EscapedCharacter(c.value), P.encoding)) IN
         IF Q.fault THEN Q
         ELSE IF Q.ret < HOJSON_NO_OP THEN Return(Q, Q.ret)
         ELSE [Q EXCEPT !.state = Q.escape_return_state,
                        !.escape_return_state = HOJSON_STATE_NONE]

\* (uint32_t)context->integer_value, for the values a long takes here
LongToU32(v) == IF v > MaxInt31 THEN v - MaxInt31 - MaxInt31 - 2 ELSE v

StateUnicode(P, c) ==
    IF ~HOJSON_IS_HEX_CHAR(c.value) THEN Syntax(P)
    ELSE LET digit == hojson_hex_character_to_decimal(c.value) IN
         CASE P.state = HOJSON_STATE_UNICODE_1 ->
                 [P EXCEPT !.integer_value = digit * 4096, !.state = HOJSON_STATE_UNICODE_2]
           [] P.state = HOJSON_STATE_UNICODE_2 ->
                 [P EXCEPT !.integer_value = P.integer_value + digit * 256,
                           !.state = HOJSON_STATE_UNICODE_3]
           [] P.state = HOJSON_STATE_UNICODE_3 ->
                 [P EXCEPT !.integer_value = P.integer_value + digit * 16,
                           !.state = HOJSON_STATE_UNICODE_4]
           [] P.state = HOJSON_STATE_UNICODE_4 ->
                 LET P1 == [P EXCEPT !.integer_value = P.integer_value + digit * 1]
                     Q == hojson_append_character(P1,
                              hojson_encode_character(LongToU32(P1.integer_value), P1.encoding)) IN
                 IF Q.fault THEN Q
                 ELSE IF Q.ret < HOJSON_NO_OP THEN Return(Q, Q.ret)
                 ELSE [Q EXCEPT !.integer_value = 0,
                                !.state = Q.escape_return_state,
                                !.escape_return_state = HOJSON_STATE_NONE]

\* Lines 658-689: a character of a number that may appear once
NumberMark(P, c, flag) ==
    LET Q == hojson_append_character(P, c) IN
    IF Q.fault THEN Q
    ELSE IF Q.ret < HOJSON_NO_OP THEN Return(Q, Q.ret)
    ELSE SetStackFlags(Q, SetFlag(HOJSON_STACK(Q).flags, flag))

\* Lines 690-712: the number ended
NumberDone(P, c) ==
    LET flags == HOJSON_STACK(P).flags
        isFloat == HasFlag(flags, HOJSON_FLAG_DECIMAL) \/ HasFlag(flags, HOJSON_FLAG_EXPONENT)
        text == IF P.string_value # NULL THEN CString(P, P.string_value)
                ELSE [s |-> <<>>, ok |-> TRUE]
        P1 == IF isFloat
              THEN [P EXCEPT !.value_type = HOJSON_TYPE_FLOAT,
                             !.float_value = IF P.string_value # NULL THEN text.s
                                             ELSE P.float_value]
              ELSE [P EXCEPT !.value_type = HOJSON_TYPE_INTEGER,
                             !.integer_value = IF P.string_value # NULL THEN atoi(text.s)
                                               ELSE P.integer_value]
        P2 == Goto(SetStackFlags([P1 EXCEPT !.string_value = NULL],
                                 SetFlag(flags, HOJSON_FLAG_POST_VALUE_CLEAN_UP)),
                   HOJSON_STATE_POST_VALUE)
        P3 == IF ~HOJSON_IS_WHITESPACE(c.value) THEN hojson_stay(P2) ELSE P2 IN
    IF ~text.ok THEN Fault(P) ELSE Return(P3, HOJSON_VALUE)

StateNumberValue(P, c) ==
    LET flags == HOJSON_STACK(P).flags IN
    IF HOJSON_IS_NUMERIC(c.value) THEN ReturnIfFailed(hojson_append_character(P, c))
    ELSE IF c.value = CHR.dot
    THEN IF HasFlag(flags, HOJSON_FLAG_DECIMAL) THEN Syntax(P)
         ELSE NumberMark(P, c, HOJSON_FLAG_DECIMAL)
    ELSE IF c.value = CHR.e \/ c.value = CHR.upE
    THEN IF HasFlag(flags, HOJSON_FLAG_EXPONENT) THEN Syntax(P)
         ELSE NumberMark(P, c, HOJSON_FLAG_EXPONENT)
    ELSE IF c.value = CHR.minus \/ c.value = CHR.plus
    THEN IF ~HasFlag(flags, HOJSON_FLAG_EXPONENT) THEN Syntax(P)
         ELSE IF HasFlag(flags, HOJSON_FLAG_PLUS_OR_MINUS) THEN Syntax(P)
         ELSE NumberMark(P, c, HOJSON_FLAG_PLUS_OR_MINUS)
    ELSE IF HOJSON_IS_WHITESPACE(c.value) \/ c.value = CHR.comma
            \/ c.value = CHR.rbracket \/ c.value = CHR.rbrace
    THEN NumberDone(P, c)
    ELSE Syntax(P)

\* Lines 716-796: the letters of true, false and null after the first
StateKeyword(P, c) ==
    LET Expect(letter, next) == IF c.value = letter THEN Goto(P, next) ELSE Syntax(P) IN
    CASE P.state = HOJSON_STATE_TRUE_VALUE_T -> Expect(CHR.r, HOJSON_STATE_TRUE_VALUE_R)
      [] P.state = HOJSON_STATE_TRUE_VALUE_R -> Expect(CHR.u, HOJSON_STATE_TRUE_VALUE_U)
      [] P.state = HOJSON_STATE_TRUE_VALUE_U ->
            IF c.value = CHR.e
            THEN ValueDone([P EXCEPT !.value_type = HOJSON_TYPE_BOOLEAN, !.bool_value = 1])
            ELSE Syntax(P)
      [] P.state = HOJSON_STATE_FALSE_VALUE_F -> Expect(CHR.a, HOJSON_STATE_FALSE_VALUE_A)
      [] P.state = HOJSON_STATE_FALSE_VALUE_A -> Expect(CHR.l, HOJSON_STATE_FALSE_VALUE_L)
      [] P.state = HOJSON_STATE_FALSE_VALUE_L -> Expect(CHR.s, HOJSON_STATE_FALSE_VALUE_S)
      [] P.state = HOJSON_STATE_FALSE_VALUE_S ->
            IF c.value = CHR.e
            THEN ValueDone([P EXCEPT !.value_type = HOJSON_TYPE_BOOLEAN, !.bool_value = 0])
            ELSE Syntax(P)
      [] P.state = HOJSON_STATE_NULL_VALUE_N -> Expect(CHR.u, HOJSON_STATE_NULL_VALUE_U)
      [] P.state = HOJSON_STATE_NULL_VALUE_U -> Expect(CHR.l, HOJSON_STATE_NULL_VALUE_L)
      [] P.state = HOJSON_STATE_NULL_VALUE_L ->
            IF c.value = CHR.l
            THEN ValueDone([P EXCEPT !.value_type = HOJSON_TYPE_NULL])
            ELSE Syntax(P)

StatePostValue(P, c) ==
    LET flags == HOJSON_STACK(P).flags IN
    IF c.value = CHR.rbrace \/ c.value = CHR.rbracket THEN hojson_end_token(P, c.value)
    ELSE IF c.value = CHR.comma
    THEN IF HasFlag(flags, HOJSON_FLAG_COMMA) THEN Syntax(P)
         ELSE Goto(SetStackFlags(P, SetFlag(flags, HOJSON_FLAG_COMMA)),
                   IF HasFlag(flags, HOJSON_FLAG_IS_ARRAY) THEN HOJSON_STATE_VALUE_EXPECTED
                   ELSE HOJSON_STATE_NAME_EXPECTED)
    ELSE IF ~HOJSON_IS_WHITESPACE(c.value) THEN Syntax(P)
    ELSE P

Dispatch(P, c) ==
    CASE P.state = HOJSON_STATE_NONE -> StateNone(P, c)
      [] P.state >= HOJSON_STATE_UTF8_BOM1 /\ P.state <= HOJSON_STATE_UTF16LE_BOM -> StateBom(P, c)
      [] P.state = HOJSON_STATE_NAME_EXPECTED -> StateNameExpected(P, c)
      [] P.state = HOJSON_STATE_NAME -> StateName(P, c)
      [] P.state = HOJSON_STATE_POST_NAME -> StatePostName(P, c)
      [] P.state = HOJSON_STATE_VALUE_EXPECTED -> StateValueExpected(P, c)
      [] P.state = HOJSON_STATE_STRING_VALUE -> StateStringValue(P, c)
      [] P.state = HOJSON_STATE_ESCAPE -> StateEscape(P, c)
      [] P.state >= HOJSON_STATE_UNICODE_1 /\ P.state <= HOJSON_STATE_UNICODE_4 ->
            StateUnicode(P, c)
      [] P.state = HOJSON_STATE_NUMBER_VALUE -> StateNumberValue(P, c)
      [] P.state >= HOJSON_STATE_TRUE_VALUE_T /\ P.state <= HOJSON_STATE_NULL_VALUE_L ->
            StateKeyword(P, c)
      [] P.state = HOJSON_STATE_POST_VALUE -> StatePostValue(P, c)
      [] OTHER -> P

\* One iteration of the while loop (lines 394-815)
ParseIteration(P, json, json_length, data, signed) ==
    IF P.state >= HOJSON_STATE_NAME_EXPECTED /\ P.stack = NULL
    THEN Return(Goto(P, HOJSON_STATE_ERROR_INTERNAL), HOJSON_ERROR_INTERNAL)
    ELSE IF P.stack # NULL /\ ~StackValid(P) THEN Fault(P)
    ELSE LET bytes_remaining == P.json_length - (P.iterator - P.json)
             F == FillStream(P.stream, P.stream_length, bytes_remaining, P.iterator,
                             json, json_length, data) IN
         IF F.fault THEN Fault(P)
         ELSE LET c == hojson_decode_character(F.stream, bytes_remaining, P.encoding, signed)
                  P1 == [P EXCEPT !.stream = F.stream] IN
              IF c.value = 0 \/ c.value = UINT32_MAX
              THEN Return([P1 EXCEPT !.stream_length = F.bytes_to_copy,
                                     !.error_return_state = P.state,
                                     !.state = HOJSON_STATE_ERROR_UNEXPECTED_EOF],
                          HOJSON_ERROR_UNEXPECTED_EOF)
              ELSE LET P2 == IF HOJSON_IS_NEW_LINE(c.value)
                             THEN LET nl == IF P1.newline_character = 0 THEN c.value
                                            ELSE P1.newline_character IN
                                  [P1 EXCEPT !.newline_character = nl,
                                             !.line = IF c.value = nl THEN P1.line + 1
                                                      ELSE P1.line,
                                             !.column = 0]
                             ELSE [P1 EXCEPT !.column = P1.column + 1]
                       P3 == [P2 EXCEPT !.bytes_iterated = c.bytes - P.stream_length,
                                        !.iterator = P.iterator + (c.bytes - P.stream_length),
                                        !.stream_length = 0] IN
                   Dispatch(P3, c)

\* A variant of LoopLeft that reports nothing
LoopLeftSilently(P) == Return(P, HOJSON_NO_OP)

\* Line 817: the loop was left, the state being none it goes on in
LoopLeft(P) == Return(P, HOJSON_ERROR_SYNTAX)

RECURSIVE ParseLoop(_, _, _, _, _)
ParseLoop(P, json, json_length, data, signed) ==
    IF P.fault THEN Return(P, FAULT)
    ELSE IF P.returned THEN P
    ELSE IF ~(P.state >= HOJSON_STATE_NONE /\ P.state <= HOJSON_STATE_DONE)
    THEN LoopLeft(P)
    ELSE ParseLoop(ParseIteration(P, json, json_length, data, signed),
                   json, json_length, data, signed)

\* A variant of InvalidInput that lets every call through
NeverInvalid(P, json, json_length) == FALSE

\* Line 309: the context is not initialized or no input is given (the model
\* has no null context: a call is made on a context)
InvalidInput(P, json, json_length) ==
    P.is_initialized = 0 \/ json = NULL \/ json_length <= 0

hojson_parse(P, json, json_length, data, signed) ==
    LET P0 == [P EXCEPT !.returned = FALSE, !.ret = HOJSON_NO_OP] IN
    IF InvalidInput(P0, json, json_length)
    THEN Return(P0, HOJSON_ERROR_INVALID_INPUT)
    ELSE LET P1 == DeferredWork(P0) IN
         IF P1.fault THEN Return(P1, FAULT)
         ELSE IF P1.returned THEN P1
         ELSE LET P2 == ResumeOrReturn(P1, json, json_length, data, signed) IN
              IF P2.fault THEN Return(P2, FAULT)
              ELSE IF P2.returned THEN P2
              ELSE ParseLoop(AdoptInput(P2, json, json_length), json, json_length, data, signed)

(***************************************************************************)
(* JSON documents.  A document is a tree; its text is the serialisation of *)
(* the tree and the events a parser owes for it are the tree's pre-order.  *)
(* The content of a string or name is a sequence of items, each the code   *)
(* points of its source text (src) and the code point it stands for (cp).  *)
(***************************************************************************)
Lit(c) == [src |-> <<c>>, cp |-> c]
Esc(src, cp) == [src |-> src, cp |-> cp]

Obj(members) == [kind |-> "object", members |-> members]
Arr(elements) == [kind |-> "array", elements |-> elements]
Str(items) == [kind |-> "string", items |-> items]
Num(src) == [kind |-> "number", src |-> src]
True == [kind |-> "true"]
False == [kind |-> "false"]
Null == [kind |-> "null"]
Member(name, tree) == [name |-> name, value |-> tree]

RECURSIVE Flatten(_)
Flatten(seqs) == IF seqs = <<>> THEN <<>> ELSE Head(seqs) \o Flatten(Tail(seqs))

SrcOf(items) == Flatten([i \in 1..Len(items) |-> items[i].src])
CpsOf(items) == [i \in 1..Len(items) |-> items[i].cp]

\* The text of a tree, pad being put around every token inside the root
RECURSIVE Serialize(_, _)
Serialize(t, pad) ==
    CASE t.kind = "object" ->
            <<CHR.lbrace>> \o pad
            \o Flatten([i \in 1..Len(t.members) |->
                   <<CHR.quote>> \o SrcOf(t.members[i].name) \o <<CHR.quote>> \o pad
                   \o <<CHR.colon>> \o pad \o Serialize(t.members[i].value, pad) \o pad
                   \o (IF i < Len(t.members) THEN <<CHR.comma>> \o pad ELSE <<>>)])
            \o <<CHR.rbrace>>
      [] t.kind = "array" ->
            <<CHR.lbracket>> \o pad
            \o Flatten([i \in 1..Len(t.elements) |->
                   Serialize(t.elements[i], pad) \o pad
                   \o (IF i < Len(t.elements) THEN <<CHR.comma>> \o pad ELSE <<>>)])
            \o <<CHR.rbracket>>
      [] t.kind = "string" -> <<CHR.quote>> \o SrcOf(t.items) \o <<CHR.quote>>
      [] t.kind = "number" -> t.src
      [] t.kind = "true" -> <<CHR.t, CHR.r, CHR.u, CHR.e>>
      [] t.kind = "false" -> <<CHR.f, CHR.a, CHR.l, CHR.s, CHR.e>>
      [] t.kind = "null" -> <<CHR.n, CHR.u, CHR.l, CHR.l>>

\* A name or string as the code points it holds, or none
Absent == [null |-> TRUE, text |-> <<>>]
Present(text) == [null |-> FALSE, text |-> text]

IsFloatText(src) == \E i \in 1..Len(src) : src[i] \in {CHR.dot, CHR.e, CHR.upE}

\* Whether a \uXXXX escape occurs in the source of a name or string
HasUnicodeEscape(items) ==
    \E i \in 1..Len(items) : Len(items[i].src) > 1 /\ items[i].src[2] = CHR.u

\* An event owed: its code, the name and the value that come with it (as code
\* points), and whether the text it closes (the name of a NAME event, the
\* string of a VALUE event) was written with a \uXXXX escape
Owed(code, name, type, bool, string, unicode) ==
    [code |-> code, name |-> name, type |-> type, bool |-> bool, string |-> string,
     unicode |-> unicode]

\* The events owed for tree t, met as the value of a member called name
\* (Absent for the root and for the elements of an array)
RECURSIVE PreOrder(_, _)
PreOrder(t, name) ==
    CASE t.kind = "object" ->
            <<Owed(HOJSON_OBJECT_BEGIN, name, HOJSON_TYPE_NONE, 0, Absent, FALSE)>>
            \o Flatten([i \in 1..Len(t.members) |->
                   <<Owed(HOJSON_NAME, Present(CpsOf(t.members[i].name)),
                          HOJSON_TYPE_NONE, 0, Absent,
                          HasUnicodeEscape(t.members[i].name))>>
                   \o PreOrder(t.members[i].value, Present(CpsOf(t.members[i].name)))])
            \o <<Owed(HOJSON_OBJECT_END, name, HOJSON_TYPE_NONE, 0, Absent, FALSE)>>
      [] t.kind = "array" ->
            <<Owed(HOJSON_ARRAY_BEGIN, name, HOJSON_TYPE_NONE, 0, Absent, FALSE)>>
            \o Flatten([i \in 1..Len(t.elements) |-> PreOrder(t.elements[i], Absent)])
            \o <<Owed(HOJSON_ARRAY_END, name, HOJSON_TYPE_NONE, 0, Absent, FALSE)>>
      [] t.kind = "string" ->
            <<Owed(HOJSON_VALUE, name, HOJSON_TYPE_STRING, 0, Present(CpsOf(t.items)),
                   HasUnicodeEscape(t.items))>>
      [] t.kind = "number" ->
            <<Owed(HOJSON_VALUE, name,
                   IF IsFloatText(t.src) THEN HOJSON_TYPE_FLOAT ELSE HOJSON_TYPE_INTEGER,
                   0, Absent, FALSE)>>
      [] t.kind = "true" ->
            <<Owed(HOJSON_VALUE, name, HOJSON_TYPE_BOOLEAN, 1, Absent, FALSE)>>
      [] t.kind = "false" ->
            <<Owed(HOJSON_VALUE, name, HOJSON_TYPE_BOOLEAN, 0, Absent, FALSE)>>
      [] t.kind = "null" -> <<Owed(HOJSON_VALUE, name, HOJSON_TYPE_NULL, 0, Absent, FALSE)>>

(***************************************************************************)
(* The well-formed encoding of a code point below 2^16 that is no          *)
(* surrogate: what a document file holds for it, and what a string         *)
(* delivered in that encoding holds for it.                                *)
(***************************************************************************)
Unit16(unit, encoding) ==
    IF encoding = HOJSON_ENCODING_UTF_16_LE THEN <<unit % 256, unit \div 256>>
    ELSE <<unit \div 256, unit % 256>>

WellFormed(cp, encoding) ==
    IF encoding = HOJSON_ENCODING_UTF_16_LE \/ encoding = HOJSON_ENCODING_UTF_16_BE
    THEN IF cp < 65536 THEN Unit16(cp, encoding)
         ELSE Unit16(55296 + ((cp - 65536) \div 1024), encoding)
              \o Unit16(56320 + ((cp - 65536) % 1024), encoding)
    ELSE IF cp < 128 THEN <<cp>>
    ELSE IF cp < 2048 THEN <<192 + (cp \div 64), 128 + (cp % 64)>>
    ELSE IF cp < 65536
    THEN <<224 + (cp \div 4096), 128 + ((cp \div 64) % 64), 128 + (cp % 64)>>
    ELSE <<240 + (cp \div 262144), 128 + ((cp \div 4096) % 64),
           128 + ((cp \div 64) % 64), 128 + (cp % 64)>>

Encoded(cps, encoding) == Flatten([i \in 1..Len(cps) |-> WellFormed(cps[i], encoding)])

ByteOrderMark(encoding) ==
    CASE encoding = HOJSON_ENCODING_UTF_8 -> <<CHR.bomEF, CHR.bomBB, CHR.bomBF>>
      [] encoding = HOJSON_ENCODING_UTF_16_LE -> <<CHR.bomFF, CHR.bomFE>>
      [] encoding = HOJSON_ENCODING_UTF_16_BE -> <<CHR.bomFE, CHR.bomFF>>
      [] OTHER -> <<>>

\* The bytes of the file holding text in the given encoding
FileBytes(text, encoding) == ByteOrderMark(encoding) \o Encoded(text, encoding)

(***************************************************************************)
(* The documents parsed.  A valid one has a tree; an invalid one only its  *)
(* text.                                                                   *)
(***************************************************************************)
Digit(d) == CHR.zero + d
Letter(k) == CHR.a + k
Hex4(a, b, c, d) == <<CHR.backslash, CHR.u, a, b, c, d>>

Valid(tree, pad) ==
    [valid |-> TRUE, tree |-> tree, text |-> Serialize(tree, pad), flaw |-> "none",
     error |-> HOJSON_END_OF_DOCUMENT, at |-> 0]
\* A document that is not well formed: the flaw it has, the error owed for it
\* and the place in the text (counted in characters, from 1) of the character
\* the error is owed at
Invalid(text, flaw, error, at) ==
    [valid |-> FALSE, tree |-> Null, text |-> text, flaw |-> flaw, error |-> error, at |-> at]

\* A document that is well formed but for a \uXXXX escape that names half of a
\* surrogate pair alone: its strings hold no code point for the escape
Unpaired(text) ==
    [valid |-> FALSE, tree |-> Null, text |-> text, flaw |-> "lone surrogate",
     error |-> HOJSON_END_OF_DOCUMENT, at |-> 0]

\* "a":
NameA == <<CHR.quote, CHR.a, CHR.quote, CHR.colon>>

Documents ==
    << \* {"":true,"b":1}
       Valid(Obj(<<Member(<<>>, True), Member(<<Lit(CHR.b)>>, Num(<<Digit(1)>>))>>), <<>>),
       \* [ 1 , 2.5 , -3e+1 , false , null ]
       Valid(Arr(<<Num(<<Digit(1)>>), Num(<<Digit(2), CHR.dot, Digit(5)>>),
                   Num(<<CHR.minus, Digit(3), CHR.e, CHR.plus, Digit(1)>>),
                   False, Null>>), <<CHR.space>>),
       \* {"a":[{"b":"s"},[]],"e":{}}
       Valid(Obj(<<Member(<<Lit(CHR.a)>>,
                          Arr(<<Obj(<<Member(<<Lit(CHR.b)>>, Str(<<Lit(CHR.s)>>))>>),
                                Arr(<<>>)>>)),
                   Member(<<Lit(CHR.e)>>, Obj(<<>>))>>), <<>>),
       \* {"a":"Aé"}
       Valid(Obj(<<Member(<<Lit(CHR.a)>>,
                          Str(<<Esc(Hex4(Digit(0), Digit(0), Digit(4), Digit(1)), CHR.upA),
                                Esc(Hex4(Digit(0), Digit(0), CHR.upE, Digit(9)), CHR.eacute)>>))>>),
             <<>>),
       \* ["abcdefgA"]
       Valid(Arr(<<Str(<<Lit(Letter(0)), Lit(Letter(1)), Lit(Letter(2)), Lit(Letter(3)),
                         Lit(Letter(4)), Lit(Letter(5)), Lit(Letter(6)),
                         Esc(Hex4(Digit(0), Digit(0), Digit(4), Digit(1)), CHR.upA)>>)>>),
             <<>>),
       \* ["y"] with a diaeresis on the y
       Valid(Arr(<<Str(<<Lit(CHR.ydiaeresis)>>)>>), <<>>),
       \* {"é":"\n"}, then a line feed
       Valid(Obj(<<Member(<<Esc(Hex4(Digit(0), Digit(0), CHR.e, Digit(9)), CHR.eacute)>>,
                          Str(<<Esc(<<CHR.backslash, CHR.n>>, CHR.lf)>>))>>), <<CHR.lf>>),
       \* [1,]
       Invalid(<<CHR.lbracket, Digit(1), CHR.comma, CHR.rbracket>>,
               "trailing comma", HOJSON_ERROR_SYNTAX, 4),
       \* [}
       Invalid(<<CHR.lbracket, CHR.rbrace>>, "mismatch", HOJSON_ERROR_TOKEN_MISMATCH, 2),
       \* {"a" 1}
       Invalid(<<CHR.lbrace, CHR.quote, CHR.a, CHR.quote, CHR.space, Digit(1), CHR.rbrace>>,
               "no colon", HOJSON_ERROR_SYNTAX, 6),
       \* [{"a":1, }]
       Invalid(<<CHR.lbracket, CHR.lbrace>> \o NameA
               \o <<Digit(1), CHR.comma, CHR.space, CHR.rbrace, CHR.rbracket>>,
               "trailing comma", HOJSON_ERROR_SYNTAX, 10),
       \* {"a":[[],]}
       Invalid(<<CHR.lbrace>> \o NameA
               \o <<CHR.lbracket, CHR.lbracket, CHR.rbracket, CHR.comma, CHR.rbracket,
                    CHR.rbrace>>,
               "trailing comma", HOJSON_ERROR_SYNTAX, 10),
       \* {"a":[1,2}
       Invalid(<<CHR.lbrace>> \o NameA
               \o <<CHR.lbracket, Digit(1), CHR.comma, Digit(2), CHR.rbrace>>,
               "mismatch", HOJSON_ERROR_TOKEN_MISMATCH, 10),
       \* [{"a":{} ]]
       Invalid(<<CHR.lbracket, CHR.lbrace>> \o NameA
               \o <<CHR.lbrace, CHR.rbrace, CHR.space, CHR.rbracket, CHR.rbracket>>,
               "mismatch", HOJSON_ERROR_TOKEN_MISMATCH, 10),
       \* [,1]
       Invalid(<<CHR.lbracket, CHR.comma, Digit(1), CHR.rbracket>>,
               "comma", HOJSON_ERROR_SYNTAX, 2),
       \* { ,"a":1}
       Invalid(<<CHR.lbrace, CHR.space, CHR.comma>> \o NameA \o <<Digit(1), CHR.rbrace>>,
               "comma", HOJSON_ERROR_SYNTAX, 3),
       \* [[1], ,2]
       Invalid(<<CHR.lbracket, CHR.lbracket, Digit(1), CHR.rbracket, CHR.comma, CHR.space,
                 CHR.comma, Digit(2), CHR.rbracket>>,
               "comma", HOJSON_ERROR_SYNTAX, 7),
       \* {"a":1,,"a":2}
       Invalid(<<CHR.lbrace>> \o NameA \o <<Digit(1), CHR.comma, CHR.comma>> \o NameA
               \o <<Digit(2), CHR.rbrace>>,
               "comma", HOJSON_ERROR_SYNTAX, 8),
       \* ["x"] with for x the character U+1F601, outside the basic plane
       Valid(Arr(<<Str(<<Lit(CHR.grin)>>)>>), <<>>),
       \* ["x"] with for x the euro sign U+20AC
       Valid(Arr(<<Str(<<Lit(CHR.euro)>>)>>), <<>>),
       \* [ and the euro sign, where the file ends
       Invalid(<<CHR.lbracket, CHR.euro>>, "truncated", HOJSON_ERROR_UNEXPECTED_EOF, 2),
       \* [1,true] with a carriage return and a line feed around every token
       Valid(Arr(<<Num(<<Digit(1)>>), True>>), <<CHR.cr, CHR.lf>>),
       \* ["abcdefg and a line feed"], the line feed being in the string as it is
       Invalid(<<CHR.lbracket, CHR.quote, Letter(0), Letter(1), Letter(2), Letter(3),
                 Letter(4), Letter(5), Letter(6), CHR.lf, CHR.quote, CHR.rbracket>>,
               "control character", HOJSON_ERROR_SYNTAX, 10),
       \* [.5]
       Invalid(<<CHR.lbracket, CHR.dot, Digit(5), CHR.rbracket>>,
               "leading dot", HOJSON_ERROR_SYNTAX, 2),
       \* [1.]
       Invalid(<<CHR.lbracket, Digit(1), CHR.dot, CHR.rbracket>>,
               "trailing dot", HOJSON_ERROR_SYNTAX, 4),
       \* {"a":}
       Invalid(<<CHR.lbrace>> \o NameA \o <<CHR.rbrace>>, "no value", HOJSON_ERROR_SYNTAX, 6),
       \* [1,}
       Invalid(<<CHR.lbracket, Digit(1), CHR.comma, CHR.rbrace>>,
               "mismatch after comma", HOJSON_ERROR_TOKEN_MISMATCH, 4),
       \* {"a\ud800":"\udfffb"}
       Unpaired(<<CHR.lbrace, CHR.quote, CHR.a>>
                \o Hex4(Letter(3), Digit(8), Digit(0), Digit(0))
                \o <<CHR.quote, CHR.colon, CHR.quote>>
                \o Hex4(Letter(3), CHR.f, CHR.f, CHR.f)
                \o <<CHR.b, CHR.quote, CHR.rbrace>>),
       \* ["abcdefg"]
       Valid(Arr(<<Str(<<Lit(Letter(0)), Lit(Letter(1)), Lit(Letter(2)), Lit(Letter(3)),
                         Lit(Letter(4)), Lit(Letter(5)), Lit(Letter(6))>>)>>), <<>>),
       \* [1234567]
       Valid(Arr(<<Num(<<Digit(1), Digit(2), Digit(3), Digit(4), Digit(5), Digit(6),
                         Digit(7)>>)>>), <<>>) >>

(***************************************************************************)
(* What a caller reads in the context after a call.                        *)
(***************************************************************************)
UnitBytes(encoding) ==
    IF encoding = HOJSON_ENCODING_UTF_16_LE \/ encoding = HOJSON_ENCODING_UTF_16_BE
    THEN 2 ELSE 1

\* Whether addr lies in the header (parent, end, flags) of a node: the bytes
\* there are those of pointers, not of characters
InHeader(P, addr) ==
    \E k \in DOMAIN P.nodes : addr - P.buffer >= k /\ addr - P.buffer < k + DataOffset

\* The characters at addr up to the terminator: units of the encoding's
\* width, ending before the first unit that is zero.  ok is FALSE when the
\* text runs into the header of a node or off the buffer before a terminator
\* is met.
RECURSIVE TextAt(_, _)
TextAt(P, addr) ==
    LET w == UnitBytes(P.encoding) IN
    IF addr = NULL THEN [null |-> TRUE, text |-> <<>>, ok |-> TRUE]
    ELSE IF ~InBuffer(P, addr, w) \/ \E i \in 1..w : InHeader(P, addr + i - 1)
    THEN [null |-> FALSE, text |-> <<>>, ok |-> FALSE]
    ELSE LET unit == [i \in 1..w |-> P.mem[addr - P.buffer + i]] IN
         IF \A i \in 1..w : unit[i] = 0 THEN [null |-> FALSE, text |-> <<>>, ok |-> TRUE]
         ELSE LET rest == TextAt(P, addr + w) IN
              [null |-> FALSE, text |-> unit \o rest.text, ok |-> rest.ok]

\* The public fields of the context, as read when hojson_parse returned code
Event(P, code) ==
    [code |-> code, name |-> TextAt(P, P.name), type |-> P.value_type,
     string |-> TextAt(P, P.string_value), integer |-> P.integer_value,
     float |-> P.float_value, bool |-> P.bool_value,
     line |-> P.line, column |-> P.column, depth |-> P.depth]

\* The name and value payloads of an event
Payload(e) == [code |-> e.code, name |-> e.name, type |-> e.type, string |-> e.string,
               integer |-> e.integer, float |-> e.float, bool |-> e.bool]

Payloads(events) == [i \in 1..Len(events) |-> Payload(events[i])]
Codes(events) == [i \in 1..Len(events) |-> events[i].code]

IsPrefix(s, t) == Len(s) <= Len(t) /\ s = SubSeq(t, 1, Len(s))

(***************************************************************************)
(* The driver: the loop of src/test/hojson-test.c (lines 59-124), which    *)
(* reads the file a slice at a time into `content`, hands the slice to     *)
(* hojson_parse at `content` or at `content_copy`, reads on after          *)
(* "unexpected end of file" and doubles the buffer after "insufficient     *)
(* memory"; and, once the document is done with, further calls of          *)
(* hojson_parse with slices of the caller's choice.                        *)
(***************************************************************************)
\* Where the driver's arrays and the blocks malloc returns lie
ContentAddress == 4096
ContentCopyAddress == 8192
HeapA == 16384
HeapB == 32768

\* Sizes of slice read at a time (0: the whole file), initial lengths of the
\* buffer, and the number of calls made after the document is done with
MaxChunk == 3
BufferSlack == 1
Ample == 128
MaxAgain == 2

ChunkSizes == 0..MaxChunk
BufferLengths == (SizeofNode..(SizeofNode + BufferSlack)) \cup {Ample}
Encodings == {HOJSON_ENCODING_UNKNOWN, HOJSON_ENCODING_UTF_8,
              HOJSON_ENCODING_UTF_16_LE, HOJSON_ENCODING_UTF_16_BE}
AgainSlices == {<<CHR.rbracket>>, <<CHR.lbracket, CHR.zero, CHR.rbracket>>}

VARIABLES
    hojson_context,        \* the context and the buffer it works in
    document,              \* index of the document in Documents
    file_encoding,         \* the encoding the file is written in
    chunk,                 \* bytes read at a time, 0 for the whole file
    alternate,             \* whether successive slices go to different arrays
    signed_char,           \* whether char is a signed type in this build
    terminated,            \* whether the caller counts the terminator it puts
                           \* after a slice in the length it passes
    file_position,         \* bytes of the file read so far
    content,               \* the bytes of the slice last read
    content_pointer,       \* the array the slice is passed in
    hojson_buffer_length,  \* the driver's record of the buffer's length
    code,                  \* what the last call of hojson_parse returned
    events,                \* the events returned so far, as the caller saw them
    again,                 \* calls made after the document was done with
    refused,               \* what a call with invalid arguments returned, if
                           \* it was the last call made (NO_OP if not)
    value,                 \* a code point given to hojson_encode_character
    character,             \* the character last encoded or decoded from it
    phase                  \* what the driver does next

vars == <<hojson_context, document, file_encoding, chunk, alternate, signed_char, terminated,
          file_position, content, content_pointer, hojson_buffer_length, code,
          events, again, refused, value, character, phase>>

File == FileBytes(Documents[document].text, file_encoding)

\* No character encoded or decoded yet
NoCharacter == [raw |-> <<0, 0, 0, 0>>, value |-> 0, bytes |-> 0]

\* The driver before its first read, for a file, a slicing and a buffer of any
\* of the kinds above
Start ==
    /\ document \in 1..Len(Documents)
    /\ file_encoding \in Encodings
    /\ chunk \in ChunkSizes
    /\ alternate \in BOOLEAN
    /\ signed_char \in BOOLEAN
    /\ hojson_buffer_length \in BufferLengths
    /\ hojson_context = hojson_init(ZeroContext, HeapA, hojson_buffer_length)
    /\ file_position = 0
    /\ content = <<>>
    /\ content_pointer = ContentAddress
    /\ code = HOJSON_NO_OP
    /\ events = <<>>
    /\ again = 0
    /\ refused = HOJSON_NO_OP
    /\ value = 0
    /\ character = NoCharacter
    /\ phase = "read"

\* The driver of the test, which passes the number of bytes read (line 73)
Init == Start /\ terminated = FALSE

\* A caller that passes the slice as the string it is, the terminator of line
\* 68 counted in the length
InitTerminated == Start /\ terminated = TRUE

\* The terminator the caller counts in
Terminator == IF terminated THEN <<0>> ELSE <<>>

\* fread on the file given, and the choice of the array the slice is passed
\* in (lines 67-70)
ReadFrom(file) ==
    IF file_position >= Len(file)
    THEN /\ phase' = "end of file"
         /\ UNCHANGED <<content, content_pointer, file_position>>
    ELSE /\ file_position' = IF chunk = 0 \/ chunk > Len(file) - file_position
                             THEN Len(file) ELSE file_position + chunk
         /\ content' = SubSeq(file, file_position + 1, file_position') \o Terminator
         /\ content_pointer' = IF alternate /\ content_pointer = ContentAddress
                               THEN ContentCopyAddress ELSE ContentAddress
         /\ phase' = "parse"

Read ==
    /\ phase = "read"
    /\ ReadFrom(File)
    /\ UNCHANGED <<hojson_context, document, file_encoding, chunk, alternate, signed_char,
                   terminated, value, character, hojson_buffer_length, code, events,
                   again, refused>>

\* What the driver does with the code returned (lines 74-124)
After(returned) ==
    IF returned = FAULT THEN "fault"
    ELSE IF returned = HOJSON_ERROR_UNEXPECTED_EOF THEN "read"
    ELSE IF returned = HOJSON_ERROR_INSUFFICIENT_MEMORY THEN "realloc"
    ELSE IF returned < HOJSON_NO_OP \/ returned = HOJSON_END_OF_DOCUMENT THEN "done"
    ELSE "parse"

Logged(P) == IF P.ret > HOJSON_END_OF_DOCUMENT THEN <<Event(P, P.ret)>> ELSE <<>>

\* What the driver keeps of a call that returned with the context as P: the
\* code, and the event if it is one (lines 73, 127-156)
Kept(P) ==
    /\ hojson_context' = P
    /\ code' = P.ret
    /\ events' = events \o Logged(P)

\* One call of hojson_parse on the current slice (line 73)
Parse ==
    /\ phase = "parse"
    /\ Kept(hojson_parse(hojson_context, content_pointer, Len(content), content, signed_char))
    /\ phase' = After(code')
    /\ refused' = HOJSON_NO_OP
    /\ UNCHANGED <<document, file_encoding, chunk, alternate, signed_char, terminated,
                   value, character, file_position, content, content_pointer,
                   hojson_buffer_length, again>>

\* The buffer is doubled (lines 83-87)
Realloc ==
    /\ phase = "realloc"
    /\ hojson_buffer_length' = hojson_buffer_length * 2
    /\ hojson_context' = hojson_realloc(hojson_context,
                                        IF hojson_context.buffer = HeapA THEN HeapB ELSE HeapA,
                                        hojson_buffer_length * 2)
    /\ phase' = "parse"
    /\ UNCHANGED <<document, file_encoding, chunk, alternate, signed_char, terminated,
                   value, character, file_position, content, content_pointer, code,
                   events, again, refused>>

\* A further call once END_OF_DOCUMENT or an error that is not recoverable
\* was returned, with any slice at either array
ParseAgain ==
    /\ phase = "done"
    /\ again < MaxAgain
    /\ \E slice \in AgainSlices, pointer \in {ContentAddress, ContentCopyAddress} :
          /\ Kept(hojson_parse(hojson_context, pointer, Len(slice), slice, signed_char))
          /\ content' = slice
          /\ content_pointer' = pointer
    /\ again' = again + 1
    /\ refused' = HOJSON_NO_OP
    /\ UNCHANGED <<document, file_encoding, chunk, alternate, signed_char, terminated,
                   value, character, file_position, hojson_buffer_length, phase>>

\* The calls hojson_parse refuses (line 309): no input, input of no length,
\* or a context that is not initialized, whatever else it holds
InvalidCalls ==
    LET elsewhere == IF hojson_context.json = ContentAddress THEN ContentCopyAddress
                     ELSE ContentAddress IN
    { [context |-> hojson_context, json |-> NULL, json_length |-> Len(content)],
      [context |-> hojson_context, json |-> elsewhere, json_length |-> 0],
      [context |-> [hojson_context EXCEPT !.is_initialized = 0],
       json |-> elsewhere, json_length |-> Len(content)] }

\* The context a call leaves behind and the code it returns, the call made on
\* the context `before` and returning with the context as P
Outcome(before, P) ==
    [context |-> [P EXCEPT !.ret = before.ret, !.returned = before.returned],
     code |-> P.ret]

Called(call) ==
    Outcome(call.context,
            hojson_parse(call.context, call.json, call.json_length, content, signed_char))

\* The caller has the context and the code of a call that was refused
Left(outcome) ==
    /\ hojson_context' = outcome.context
    /\ refused' = outcome.code

\* A call of hojson_parse with no input or with input of no length, made at
\* any time between the calls of the driver
ParseInvalid ==
    /\ phase # "fault"
    /\ \E call \in InvalidCalls :
          /\ call.context = hojson_context
          /\ Left(Called(call))
    /\ UNCHANGED <<document, file_encoding, chunk, alternate, signed_char, terminated,
                   value, character, file_position, content, content_pointer,
                   hojson_buffer_length, code, events, again, phase>>

\* The calls of hojson_parse a caller may make on the slice in hand, passed at
\* either array, before the buffer is doubled
FullCalls ==
    { [context |-> hojson_context, json |-> pointer, json_length |-> Len(content)] :
        pointer \in {ContentAddress, ContentCopyAddress} }

\* A further call of hojson_parse after INSUFFICIENT_MEMORY, made before the
\* buffer is doubled
ParseFull ==
    /\ phase = "realloc"
    /\ \E call \in FullCalls : Left(Called(call))
    /\ UNCHANGED <<document, file_encoding, chunk, alternate, signed_char, terminated,
                   value, character, file_position, content, content_pointer,
                   hojson_buffer_length, code, events, again, phase>>

\* The buffers hojson_realloc refuses (line 273): none, or one that is not
\* longer than the buffer in use
RefusedBuffers ==
    LET other == IF hojson_context.buffer = HeapA THEN HeapB ELSE HeapA IN
    { [buffer |-> NULL, buffer_length |-> 2 * hojson_context.buffer_length],
      [buffer |-> other, buffer_length |-> hojson_context.buffer_length],
      [buffer |-> other, buffer_length |-> SizeofNode - 1] }

\* A call of hojson_realloc with such a buffer, made at any time between the
\* calls of the driver
ReallocInvalid ==
    /\ phase # "fault"
    /\ \E to \in RefusedBuffers :
          hojson_context' = hojson_realloc(hojson_context, to.buffer, to.buffer_length)
    /\ UNCHANGED <<document, file_encoding, chunk, alternate, signed_char, terminated,
                   value, character, file_position, content, content_pointer,
                   hojson_buffer_length, code, events, again, phase, refused>>

Next == Read \/ Parse \/ Realloc \/ ParseAgain \/ ParseInvalid \/ ParseFull \/ ReallocInvalid

Spec == Init /\ [][Next]_vars

SpecTerminated == InitTerminated /\ [][Next]_vars

(***************************************************************************)
(* What the claims speak of.                                               *)
(***************************************************************************)
IsValid == Documents[document].valid
OwedEvents == PreOrder(Documents[document].tree, Absent)

\* The run is the driver's own (no call made after the document was done with)
Driven == again = 0

\* The whole file is passed as one slice
SingleSlice == chunk = 0

\* The buffer was ample from the start and never reallocated
AmpleBuffer == hojson_buffer_length = Ample

\* The driver stopped: the document is done with, or the file gave out
Stopped == phase = "done" \/ phase = "end of file"

LastEvent == events[Len(events)]

\* The event owed at the place in the document the last event was returned for
OwedNow == OwedEvents[Len(events)]
Aligned == /\ events # <<>>
           /\ Len(events) <= Len(OwedEvents)
           /\ OwedNow.code = LastEvent.code

\* A text read in the context, against the code points it should hold
Holds(read, owed) ==
    /\ read.null = owed.null
    /\ read.ok
    /\ read.text = Encoded(owed.text, file_encoding)

\* The run of hojson_parse over the whole file as one slice, in a buffer that
\* is ample: the events returned and the code that ended the run
RECURSIVE RunWhole(_, _, _, _, _)
RunWhole(P, data, signed, log, fuel) ==
    LET Q == hojson_parse(P, ContentAddress, Len(data), data, signed) IN
    IF Q.ret > HOJSON_END_OF_DOCUMENT /\ fuel > 0
    THEN RunWhole(Q, data, signed, log \o <<Event(Q, Q.ret)>>, fuel - 1)
    ELSE [events |-> log, code |-> Q.ret]

Reference == RunWhole(hojson_init(ZeroContext, HeapA, Ample), File, signed_char, <<>>, Len(File))

\* The run gave, so far, the events of the reference run with their payloads,
\* and where the driver stopped it had given them all and the same last code
SameAsReference ==
    /\ IsPrefix(Payloads(events), Payloads(Reference.events))
    /\ Stopped => /\ Payloads(events) = Payloads(Reference.events)
                  /\ code = Reference.code

(***************************************************************************)
(* Claims                                                                  *)
(***************************************************************************)

\* C1: a well-formed document passed as one slice, in a buffer that never
\* runs out, gives as return codes the pre-order events of the document and
\* then END_OF_DOCUMENT, with no error code in between.
C1_PreOrderCodes ==
    (IsValid /\ SingleSlice /\ AmpleBuffer /\ Driven) =>
        /\ code >= HOJSON_NO_OP
        /\ phase # "end of file"
        /\ IsPrefix(Codes(events), Codes(OwedEvents))
        /\ phase = "done" => /\ code = HOJSON_END_OF_DOCUMENT
                             /\ Codes(events) = Codes(OwedEvents)

\* C2: a valid document passed in consecutive chunks, each at another pointer
\* than the one before, gives the events and payloads of the same document
\* passed as one slice, in every encoding.
C2_SlicingEquivalence ==
    (IsValid /\ alternate /\ AmpleBuffer /\ Driven) => SameAsReference

\* C3: a driver that doubles the buffer at every INSUFFICIENT_MEMORY gets,
\* from any initial length that holds a node header, the events and payloads
\* of a run whose buffer never runs out.
C3_ReallocEquivalence ==
    (IsValid /\ SingleSlice /\ Driven) => SameAsReference

\* C4: after UNEXPECTED_EOF the next call, given the continuation, goes on
\* where parsing stopped and produces the next event, at the same pointer or
\* at another (documents of one-byte characters, so that no character is
\* split between slices).
C4_ResumeAfterEof ==
    (IsValid /\ file_encoding = HOJSON_ENCODING_UNKNOWN /\ AmpleBuffer /\ Driven) =>
        /\ SameAsReference
        /\ phase # "end of file"

\* C5: once END_OF_DOCUMENT or an error that is not recoverable was returned,
\* every further call with any slice returns the same code and changes
\* nothing in the context or the buffer: no input is adopted, line, column
\* and depth stay.
C5_OutcomePinned ==
    [][ParseAgain => /\ code' = code
                     /\ hojson_context' = hojson_context
                     /\ events' = events]_vars

C5_Witness ==
    /\ again = MaxAgain
    /\ code = HOJSON_END_OF_DOCUMENT
    /\ hojson_context.line > 1
    /\ content_pointer # hojson_context.json

\* C6: every NAME event comes with a name that is not null and holds exactly
\* the characters of the member name just closed.
C6_NameEventHoldsName ==
    (IsValid /\ Driven /\ code = HOJSON_NAME /\ Aligned) => Holds(LastEvent.name, OwedNow.name)

\* C7: every VALUE event comes with a value type other than none, the type
\* of the token: string, boolean (bool_value 1 for true, 0 for false), null,
\* float for a number with '.' or an exponent, integer for any other number.
C7_ValueTypeOfToken ==
    (Driven /\ code = HOJSON_VALUE) =>
        /\ LastEvent.code = HOJSON_VALUE
        /\ LastEvent.type # HOJSON_TYPE_NONE
        /\ IsValid => /\ Aligned
                      /\ LastEvent.type = OwedNow.type
                      /\ LastEvent.type = HOJSON_TYPE_BOOLEAN => LastEvent.bool = OwedNow.bool

C7_Witness ==
    /\ code = HOJSON_VALUE
    /\ LastEvent.type = HOJSON_TYPE_FLOAT
    /\ chunk = 1
    /\ hojson_context.buffer = HeapB
    /\ Len(SelectSeq(events, LAMBDA e : e.code = HOJSON_VALUE)) > 2

\* C8: no node is flagged both IS_ARRAY and HAS_NAME, and a VALUE,
\* OBJECT_BEGIN or ARRAY_BEGIN returned for an element of an array comes with
\* name null, at any depth and also in an array that is the value of a named
\* member.
IsArrayNode(P, addr) ==
    NodeValid(P, addr) /\ HasFlag(NodeAt(P, addr).flags, HOJSON_FLAG_IS_ARRAY)

C8_ArrayElementsNameless ==
    LET P == hojson_context IN
    /\ \A k \in DOMAIN P.nodes :
          ~(HasFlag(P.nodes[k].flags, HOJSON_FLAG_IS_ARRAY)
            /\ HasFlag(P.nodes[k].flags, HOJSON_FLAG_HAS_NAME))
    /\ (code = HOJSON_VALUE /\ IsArrayNode(P, P.stack)) => P.name = NULL
    /\ (code \in {HOJSON_OBJECT_BEGIN, HOJSON_ARRAY_BEGIN}
        /\ IsArrayNode(P, HOJSON_STACK(P).parent)) => P.name = NULL
    /\ (IsValid /\ Driven /\ Aligned /\ OwedNow.name.null
        /\ code \in {HOJSON_VALUE, HOJSON_OBJECT_BEGIN, HOJSON_ARRAY_BEGIN}) => P.name = NULL

C8_Witness ==
    LET P == hojson_context IN
    /\ code = HOJSON_ARRAY_BEGIN
    /\ IsArrayNode(P, HOJSON_STACK(P).parent)
    /\ NodeValid(P, NodeAt(P, HOJSON_STACK(P).parent).parent)
    /\ HasFlag(NodeAt(P, NodeAt(P, HOJSON_STACK(P).parent).parent).flags, HOJSON_FLAG_HAS_NAME)
    /\ P.name = NULL

\* C9: every VALUE event for a member of an object comes with name holding
\* the name of that member.
C9_ValueCarriesMemberName ==
    (IsValid /\ Driven /\ code = HOJSON_VALUE /\ Aligned /\ ~OwedNow.name.null) =>
        Holds(LastEvent.name, OwedNow.name)

\* C10: a \uXXXX escape in a string or a name appends the well-formed
\* encoding, in the document's encoding, of the code point the four hex
\* digits give.
C10_UnicodeEscapeWellFormed ==
    (IsValid /\ Driven /\ Aligned /\ OwedNow.unicode) =>
        /\ code = HOJSON_NAME => Holds(LastEvent.name, OwedNow.name)
        /\ code = HOJSON_VALUE => Holds(LastEvent.string, OwedNow.string)

(***************************************************************************)
(* Documents that are not well formed                                      *)
(***************************************************************************)
Flaw == Documents[document].flaw

\* Bytes of the file the parser has gone past
Consumed == file_position - Len(content) + (hojson_context.iterator - hojson_context.json)

\* Bytes of the file up to and including the character the error is owed at
\* (the documents that are not well formed hold ASCII characters only)
ErrorPlace ==
    Len(ByteOrderMark(file_encoding)) + Documents[document].at * UnitBytes(file_encoding)

\* No character of the file is split between two slices, and each slice is
\* passed at another pointer than the one before
Delivered == SingleSlice \/ (alternate /\ UnitBytes(file_encoding) = 1)

\* END_OF_DOCUMENT is never returned for a document with the given flaw
NeverEnds(flaw) == (Flaw = flaw /\ Driven) => code # HOJSON_END_OF_DOCUMENT

\* Where the run of such a document stops for good, it stops with the error owed
StopsWith(flaw) ==
    (Flaw = flaw /\ Driven /\ phase = "done") => code = Documents[document].error

\* When the input is delivered with its characters whole, the run does stop
\* for good, with the error owed, just past the character it is owed at
StopsAt(flaw) ==
    (Flaw = flaw /\ Driven /\ Delivered) =>
        /\ phase = "done" => /\ code = Documents[document].error
                             /\ Consumed = ErrorPlace
        /\ phase \notin {"end of file", "fault"}

FailedAt(flaw, depth) ==
    /\ Flaw = flaw
    /\ phase = "done"
    /\ again = 0
    /\ code = Documents[document].error
    /\ hojson_context.depth = depth
    /\ chunk = 1
    /\ hojson_context.buffer # HeapA

\* C11: a closing bracket of the matching kind that directly follows a comma
\* (whitespace aside), in an array or an object at any depth, makes
\* hojson_parse return SYNTAX at that bracket; END_OF_DOCUMENT is never
\* returned for the document.
C11_TrailingCommaIsSyntax == NeverEnds("trailing comma") /\ StopsAt("trailing comma")

C11_Witness == FailedAt("trailing comma", 2) /\ Consumed = ErrorPlace

\* C12: a container opened with { and closed with ], or opened with [ and
\* closed with }, makes hojson_parse return TOKEN_MISMATCH at the closer, at
\* any depth and whatever the container holds; END_OF_DOCUMENT is never
\* returned for the document.
C12_WrongCloserIsMismatch == NeverEnds("mismatch") /\ StopsAt("mismatch")

C12_Witness == FailedAt("mismatch", 2) /\ code = HOJSON_ERROR_TOKEN_MISMATCH

\* C13: a comma directly after the opener of a container, and a comma
\* directly after another comma (whitespace aside), make hojson_parse return
\* SYNTAX; END_OF_DOCUMENT is never returned for such a document, whatever
\* the slicing of the input and the doublings of the buffer.
C13_StrayCommaIsSyntax == NeverEnds("comma") /\ StopsWith("comma") /\ StopsAt("comma")

C13_Witness == FailedAt("comma", 1) /\ Len(events) > 2

(***************************************************************************)
(* The containers of a run, as the caller saw them begin and end           *)
(***************************************************************************)
IsBegin(c) == c \in {HOJSON_OBJECT_BEGIN, HOJSON_ARRAY_BEGIN}
IsEnd(c) == c \in {HOJSON_OBJECT_END, HOJSON_ARRAY_END}
BeginOf(c) == IF c = HOJSON_OBJECT_END THEN HOJSON_OBJECT_BEGIN ELSE HOJSON_ARRAY_BEGIN

\* The first n events read as brackets: open holds the places of the BEGIN
\* events not closed yet, innermost last; pairs holds <<b, e>> for every END
\* event e and the BEGIN event b it closed; ok is FALSE once an END event
\* came with nothing open or with a container of the other kind innermost
RECURSIVE Bracketing(_, _)
Bracketing(evs, n) ==
    IF n = 0 THEN [open |-> <<>>, pairs |-> {}, ok |-> TRUE]
    ELSE LET B == Bracketing(evs, n - 1)
             c == evs[n].code
             depth == Len(B.open) IN
         IF IsBegin(c) THEN [B EXCEPT !.open = Append(@, n)]
         ELSE IF ~IsEnd(c) THEN B
         ELSE IF depth = 0 THEN [B EXCEPT !.ok = FALSE]
         ELSE [open |-> SubSeq(B.open, 1, depth - 1),
               pairs |-> B.pairs \cup {<<B.open[depth], n>>},
               ok |-> B.ok /\ evs[B.open[depth]].code = BeginOf(c)]

Brackets == Bracketing(events, Len(events))

\* C14: for every container, depth as read at its OBJECT_BEGIN or ARRAY_BEGIN
\* event equals depth as read at the matching OBJECT_END or ARRAY_END event.
C14_DepthSameAtBeginAndEnd ==
    \A p \in Brackets.pairs : events[p[1]].depth = events[p[2]].depth

Cuts == IF chunk = 0 THEN {} ELSE {b \in 1..(Len(File) - 1) : b % chunk = 0}

\* The byte order mark arrives in one slice
MarkWhole == chunk = 0 \/ chunk >= Len(ByteOrderMark(file_encoding))

\* A UTF-8 file is cut between two bytes of one character of the document
CutsUtf8Character ==
    LET file == File IN
    \E b \in Cuts : b > Len(ByteOrderMark(file_encoding)) /\ file[b + 1] \in 128..191

\* C16: in a UTF-8 document with a byte order mark, a character of 2, 3 or 4
\* bytes whose bytes are split between two consecutive slices is decoded and
\* appended as when it arrives in one slice: the run gives the events and
\* payloads of the run over the whole file as one slice.
C16_SplitUtf8Character ==
    (IsValid /\ file_encoding = HOJSON_ENCODING_UTF_8 /\ MarkWhole /\ CutsUtf8Character
        /\ alternate /\ AmpleBuffer /\ Driven) => SameAsReference

\* The 16-bit unit that begins at the given place (from 0) of a UTF-16 file
UnitAt(file, place) ==
    IF file_encoding = HOJSON_ENCODING_UTF_16_LE
    THEN file[place + 1] + 256 * file[place + 2]
    ELSE 256 * file[place + 1] + file[place + 2]

\* The places of a UTF-16 file where a surrogate pair begins
Pairs(file) ==
    {s \in 1..(Len(file) - 4) : /\ s % 2 = 0
                                /\ UnitAt(file, s) \in 55296..56319
                                /\ UnitAt(file, s + 2) \in 56320..57343}

\* A UTF-16 file is cut inside a surrogate pair, after its first, second or
\* third byte, and nowhere inside another character
CutsSurrogatePair ==
    /\ chunk # 0
    /\ LET pairs == Pairs(File)
           cuts == Cuts IN
       /\ \E b \in cuts : \E s \in pairs : s < b /\ b < s + 4
       /\ \A b \in cuts : b % 2 = 0 \/ \E s \in pairs : s < b /\ b < s + 4

\* C17: in a UTF-16LE or UTF-16BE document, a surrogate pair split between
\* slices after its first, second or third byte is decoded on resumption as
\* one character, column advancing by one: the run gives the events of the
\* run over the whole file as one slice, with the same line and column.
C17_SplitSurrogatePair ==
    (IsValid /\ alternate /\ AmpleBuffer /\ Driven
        /\ file_encoding \in {HOJSON_ENCODING_UTF_16_LE, HOJSON_ENCODING_UTF_16_BE}
        /\ CutsSurrogatePair) =>
        LET reference == Reference IN
        /\ IsPrefix(events, reference.events)
        /\ Stopped => events = reference.events /\ code = reference.code

(***************************************************************************)
(* Accesses of the buffer and of the input                                 *)
(***************************************************************************)
\* C18: in every reachable state and for every input, hojson_parse and
\* hojson_realloc read and write the buffer only inside its buffer_length
\* bytes, and hojson_parse reads the input slice only below the length it was
\* given.
C18_AccessesInBounds == phase # "fault"

(***************************************************************************)
(* Reallocation                                                            *)
(***************************************************************************)
\* The buffer the driver would move to, and the context after moving there
OtherHeap == IF hojson_context.buffer = HeapA THEN HeapB ELSE HeapA
Moved == hojson_realloc(hojson_context, OtherHeap, 2 * hojson_context.buffer_length)

\* A pointer into the buffer of P and one into the buffer of Q are at the same
\* offset, or both null
SameOffset(P, p, Q, q) ==
    IF p = NULL THEN q = NULL ELSE q # NULL /\ q - Q.buffer = p - P.buffer

\* Q is P moved to a larger buffer with the parse preserved
Preserved(P, Q) ==
    /\ Q.buffer_length > P.buffer_length
    /\ SubSeq(Q.mem, 1, P.buffer_length) = P.mem
    /\ SameOffset(P, P.stack, Q, Q.stack)
    /\ SameOffset(P, P.name, Q, Q.name)
    /\ SameOffset(P, P.string_value, Q, Q.string_value)
    /\ DOMAIN Q.nodes = DOMAIN P.nodes
    /\ \A k \in DOMAIN P.nodes :
          /\ SameOffset(P, P.nodes[k].parent, Q, Q.nodes[k].parent)
          /\ SameOffset(P, P.nodes[k].end, Q, Q.nodes[k].end)
          /\ Q.nodes[k].flags = P.nodes[k].flags
    /\ Q.state = IF P.state = HOJSON_STATE_ERROR_INSUFFICIENT_MEMORY
                 THEN P.error_return_state ELSE P.state
    /\ [Q EXCEPT !.buffer = P.buffer, !.buffer_length = P.buffer_length, !.mem = P.mem,
                 !.stack = P.stack, !.name = P.name, !.string_value = P.string_value,
                 !.nodes = P.nodes, !.state = P.state,
                 !.error_return_state = P.error_return_state] = P

\* C19: hojson_realloc with a strictly larger buffer preserves the parse, in
\* whatever state the context is: the old bytes are at the start of the new
\* buffer, the stack pointer, the parent and end of every node, name and
\* string_value keep their offset (null stays null), line, column, depth, the
\* flags of the nodes and the iterator are unchanged, and the state changes
\* only from "insufficient memory" to the recorded error_return_state.
C19_ReallocPreservesParse ==
    /\ [](phase # "fault" => Preserved(hojson_context, Moved))
    /\ [][Realloc => Preserved(hojson_context, hojson_context')]_vars

\* The buffer was moved a second time, with three nodes on the stack and a
\* name exported, and the parse went on to the end of the document
C19_Witness ==
    /\ document = 3
    /\ hojson_context.buffer = HeapA
    /\ hojson_context.buffer_length = 4 * SizeofNode
    /\ code = HOJSON_END_OF_DOCUMENT
    /\ \E i \in 1..Len(events) : events[i].depth = 3 /\ ~events[i].name.null

(***************************************************************************)
(* Calls with invalid arguments                                            *)
(***************************************************************************)
\* The call returns INVALID_INPUT and leaves the context, the buffer with it,
\* as it was
Refused(call) ==
    Called(call) = [context |-> call.context, code |-> HOJSON_ERROR_INVALID_INPUT]

\* C20: a call of hojson_parse with a context that is not initialized, with
\* null input or with a length of zero returns INVALID_INPUT and changes
\* nothing, in whatever state the context is: no deferred flag is applied, no
\* node is popped, and depth, line, column, state, name, the value fields and
\* the buffer are as before the call.
C20_InvalidCallChangesNothing ==
    /\ [](phase # "fault" => \A call \in InvalidCalls : Refused(call))
    /\ [][ParseInvalid => /\ refused' = HOJSON_ERROR_INVALID_INPUT
                          /\ hojson_context' = hojson_context]_vars

\* A call was refused while the node on top had its depth to be raised, its
\* clean-up to be done, and a name was exported
C20_Witness ==
    /\ refused = HOJSON_ERROR_INVALID_INPUT
    /\ code = HOJSON_ARRAY_BEGIN
    /\ hojson_context.name # NULL
    /\ hojson_context.depth = 1
    /\ HasFlag(HOJSON_STACK(hojson_context).flags, HOJSON_FLAG_INCREMENT_DEPTH)
    /\ HasFlag(HOJSON_STACK(hojson_context).flags, HOJSON_FLAG_POST_VALUE_CLEAN_UP)


(***************************************************************************)
(* A null character met before the length given                            *)
(***************************************************************************)
\* The text of the document holds characters of one byte only
PlainText == \A i \in 1..Len(Documents[document].text) : Documents[document].text[i] < 128

\* C21: a null byte met before the indicated length makes hojson_parse
\* return UNEXPECTED_EOF, and the next call, given a new slice that begins
\* with the continuation of the document, resumes and produces the next
\* event: a caller passing every slice with its terminator counted in gets
\* the events of the document passed whole.
C21_NulIsRecoverable ==
    (IsValid /\ PlainText /\ file_encoding = HOJSON_ENCODING_UNKNOWN /\ terminated
     /\ alternate /\ AmpleBuffer /\ Driven) =>
        /\ SameAsReference
        /\ phase # "end of file"

(***************************************************************************)
(* The name that comes with the events of a container                      *)
(***************************************************************************)
\* C22: the name that comes with the OBJECT_END or ARRAY_END event of a
\* container is the name that came with its OBJECT_BEGIN or ARRAY_BEGIN
\* event, and both are the name of the member whose value the container is,
\* or null for the root and for an element of an array, whatever was parsed
\* inside the container.
C22_ContainerNameAtBothEnds ==
    /\ \A p \in Brackets.pairs : events[p[1]].name = events[p[2]].name
    /\ (IsValid /\ Driven /\ Delivered /\ Aligned /\ (IsBegin(code) \/ IsEnd(code))) =>
           Holds(LastEvent.name, OwedNow.name)

(***************************************************************************)
(* The encoder and the decoder of characters, one after the other: a code  *)
(* point that a \uXXXX escape can give is encoded by                       *)
(* hojson_encode_character and the bytes it gave are decoded by            *)
(* hojson_decode_character, in the same encoding.                          *)
(***************************************************************************)
\* The code points four hex digits give, the null character and the
\* surrogates left out
MaxEscape == 65535
EscapeCodePoints == (1..55295) \cup (57344..MaxEscape)

Utf == {HOJSON_ENCODING_UTF_8, HOJSON_ENCODING_UTF_16_LE, HOJSON_ENCODING_UTF_16_BE}

InitCodec ==
    /\ value \in EscapeCodePoints
    /\ file_encoding \in Utf
    /\ signed_char \in BOOLEAN
    /\ character = NoCharacter
    /\ phase = "encode"
    /\ document = 1
    /\ chunk = 0
    /\ alternate = FALSE
    /\ terminated = FALSE
    /\ hojson_buffer_length = Ample
    /\ hojson_context = hojson_init(ZeroContext, HeapA, hojson_buffer_length)
    /\ file_position = 0
    /\ content = <<>>
    /\ content_pointer = ContentAddress
    /\ code = HOJSON_NO_OP
    /\ events = <<>>
    /\ again = 0
    /\ refused = HOJSON_NO_OP

Encode ==
    /\ phase = "encode"
    /\ character' = hojson_encode_character(value, file_encoding)
    /\ phase' = "decode"
    /\ UNCHANGED <<hojson_context, document, file_encoding, chunk, alternate, signed_char,
                   terminated, value, file_position, content, content_pointer,
                   hojson_buffer_length, code, events, again, refused>>

\* The bytes of the character (c.raw) decoded as a string of c.bytes bytes
Decode ==
    /\ phase = "decode"
    /\ character' = hojson_decode_character(character.raw, character.bytes, file_encoding,
                                            signed_char)
    /\ phase' = "decoded"
    /\ UNCHANGED <<hojson_context, document, file_encoding, chunk, alternate, signed_char,
                   terminated, value, file_position, content, content_pointer,
                   hojson_buffer_length, code, events, again, refused>>

NextCodec == Encode \/ Decode

SpecCodec == InitCodec /\ [][NextCodec]_vars

\* C23: for every code point a \uXXXX escape can give outside the surrogate
\* range and each of UTF-8, UTF-16LE and UTF-16BE, decoding the bytes the
\* encoder produced, in the same encoding, yields the same code point and the
\* same number of bytes.
C23_EncodeDecodeRoundTrip ==
    [][Decode => /\ character'.value = value
                 /\ character'.bytes = character.bytes]_vars

(***************************************************************************)
(* The terminator of a name                                                *)
(***************************************************************************)
\* Whether the node on top ends with the bytes given, all of them in its data
EndsWith(P, bytes) ==
    LET first == HOJSON_STACK(P).end + 1 - Len(bytes) IN
    /\ first >= StackData(P)
    /\ \A i \in 1..Len(bytes) : P.mem[first - P.buffer + i] = bytes[i]

\* C24: when a name is closed the terminator appended after it is one zero
\* byte if the encoding of the document is UTF-8 or unknown, and two zero
\* bytes if it is UTF-16LE or UTF-16BE: the node ends with the characters of
\* the name and that many zero bytes (names written without \uXXXX).
C24_NameTerminatorWidth ==
    (IsValid /\ Driven /\ Delivered /\ code = HOJSON_NAME /\ Aligned /\ ~OwedNow.unicode) =>
        EndsWith(hojson_context, Encoded(OwedNow.name.text, file_encoding)
                                 \o Zeros(UnitBytes(file_encoding)))

(***************************************************************************)
(* The end of the document                                                 *)
(***************************************************************************)
\* The last event returned closed the root: it is an END event and no
\* container is open after it
RootJustClosed == IsEnd(code) /\ Brackets.ok /\ Brackets.open = <<>>

\* C25: END_OF_DOCUMENT is returned for the first time by the call that
\* follows the one that returned the OBJECT_END or ARRAY_END of the root,
\* and by every such call: that call pops the root, leaves the stack empty and
\* depth 0 and consumes no input; END_OF_DOCUMENT is never returned while a
\* container is open, nor for a document that ends before its root closes.
C25_EndOfDocumentAfterRootEnd ==
    /\ [](code = HOJSON_END_OF_DOCUMENT =>
             /\ Brackets.ok /\ Brackets.open = <<>> /\ Brackets.pairs # {}
             /\ Flaw # "truncated")
    /\ [][(code' = HOJSON_END_OF_DOCUMENT /\ code # HOJSON_END_OF_DOCUMENT) =>
             /\ RootJustClosed
             /\ hojson_context'.stack = NULL
             /\ DOMAIN hojson_context'.nodes = {}
             /\ hojson_context'.depth = 0
             /\ hojson_context'.iterator = hojson_context.iterator
             /\ hojson_context'.json = hojson_context.json]_vars
    /\ [][(Parse /\ RootJustClosed) => code' = HOJSON_END_OF_DOCUMENT]_vars

\* END_OF_DOCUMENT at the first call after the OBJECT_END of the root, the
\* document cut into slices and the buffer doubled on the way
C25_Witness ==
    /\ document = 3
    /\ code = HOJSON_END_OF_DOCUMENT
    /\ again = 0
    /\ LastEvent.code = HOJSON_OBJECT_END
    /\ hojson_context.stack = NULL
    /\ hojson_context.depth = 0
    /\ chunk = 1
    /\ hojson_context.buffer_length > 2 * SizeofNode
    /\ hojson_context.buffer_length < Ample

(***************************************************************************)
(* What a call returns                                                     *)
(***************************************************************************)
EventCodes == {HOJSON_END_OF_DOCUMENT, HOJSON_NAME, HOJSON_VALUE, HOJSON_OBJECT_BEGIN,
               HOJSON_OBJECT_END, HOJSON_ARRAY_BEGIN, HOJSON_ARRAY_END}
ErrorCodes == {HOJSON_ERROR_INTERNAL, HOJSON_ERROR_INSUFFICIENT_MEMORY,
               HOJSON_ERROR_UNEXPECTED_EOF, HOJSON_ERROR_TOKEN_MISMATCH, HOJSON_ERROR_SYNTAX}

\* The state that stands for an error code
ErrorState(c) ==
    CASE c = HOJSON_ERROR_INTERNAL -> HOJSON_STATE_ERROR_INTERNAL
      [] c = HOJSON_ERROR_INSUFFICIENT_MEMORY -> HOJSON_STATE_ERROR_INSUFFICIENT_MEMORY
      [] c = HOJSON_ERROR_UNEXPECTED_EOF -> HOJSON_STATE_ERROR_UNEXPECTED_EOF
      [] c = HOJSON_ERROR_TOKEN_MISMATCH -> HOJSON_STATE_ERROR_TOKEN_MISMATCH
      [] c = HOJSON_ERROR_SYNTAX -> HOJSON_STATE_ERROR_SYNTAX

\* C26: hojson_parse never returns HOJSON_NO_OP: every call returns the code
\* of one event or an error code, and when it returns an error code other
\* than INVALID_INPUT the state of the context is the error state of that
\* code.
C26_EventOrErrorNeverNoOp ==
    /\ [][((Parse \/ ParseAgain) /\ phase' # "fault") =>
             /\ code' \in EventCodes \cup ErrorCodes
             /\ code' \in ErrorCodes => hojson_context'.state = ErrorState(code')
             /\ code' \in EventCodes \ {HOJSON_END_OF_DOCUMENT} =>
                   /\ Len(events') = Len(events) + 1
                   /\ events'[Len(events')].code = code']_vars
    /\ [][ParseInvalid => refused' = HOJSON_ERROR_INVALID_INPUT]_vars

\* SYNTAX returned where the loop was left with the state of the error, in a
\* run cut into slices in which every other kind of code was returned before
C26_Witness ==
    /\ code = HOJSON_ERROR_SYNTAX
    /\ hojson_context.state = HOJSON_STATE_ERROR_SYNTAX
    /\ again = 0
    /\ document = 11
    /\ chunk = 2
    /\ hojson_context.buffer # HeapA
    /\ {events[i].code : i \in 1..Len(events)}
          = {HOJSON_ARRAY_BEGIN, HOJSON_OBJECT_BEGIN, HOJSON_NAME, HOJSON_VALUE}

(***************************************************************************)
(* Line and column                                                         *)
(***************************************************************************)
\* The number of characters of text, encoded, that lie wholly within the
\* first `bytes` bytes
RECURSIVE WholeCharacters(_, _, _)
WholeCharacters(text, encoding, bytes) ==
    IF text = <<>> THEN 0
    ELSE LET width == IF encoding = HOJSON_ENCODING_UNKNOWN THEN 1
                      ELSE Len(WellFormed(Head(text), encoding)) IN
         IF width > bytes THEN 0
         ELSE 1 + WholeCharacters(Tail(text), encoding, bytes - width)

\* The characters of the document as the parser is to count them: with no
\* byte order mark every byte is a character
Characters == IF file_encoding = HOJSON_ENCODING_UNKNOWN THEN File ELSE Documents[document].text

\* The characters of the document that lie wholly within the first `bytes`
\* bytes of the file
TextUpTo(bytes) ==
    LET text == Characters IN
    SubSeq(text, 1, WholeCharacters(text, file_encoding,
                                    bytes - Len(ByteOrderMark(file_encoding))))

Newlines(text) == {i \in 1..Len(text) : HOJSON_IS_NEW_LINE(text[i])}

Max(S) == CHOOSE x \in S : \A y \in S : y <= x
Min(S) == CHOOSE x \in S : \A y \in S : x <= y

\* The line a reader is at after text: one more than the occurrences of the
\* newline character that came first
LineAfter(text) ==
    LET at == Newlines(text) IN
    IF at = {} THEN 1
    ELSE 1 + Cardinality({i \in at : text[i] = text[Min(at)]})

\* The characters of text after its last newline character
ColumnAfter(text) ==
    LET at == Newlines(text) IN
    IF at = {} THEN Len(text) ELSE Len(text) - Max(at)

\* A call that returned went on in the input, or went to another slice
WentOn == \/ hojson_context'.iterator # hojson_context.iterator
          \/ hojson_context'.json # hojson_context.json

\* C27: line is 1 after hojson_init, and at every return of hojson_parse it
\* is one more than the number of consumed occurrences of the newline
\* character consumed first (so a carriage return followed by a line feed
\* advances it by one), however the input is sliced.
C27_LineCountsPinnedNewline ==
    /\ []((phase = "read" /\ file_position = 0) => hojson_context.line = 1)
    /\ [][(Parse /\ phase' # "fault") =>
            IF WentOn THEN hojson_context'.line = LineAfter(TextUpTo(Consumed'))
            ELSE hojson_context'.line = hojson_context.line]_vars

\* C28: at every return of hojson_parse column is the number of characters,
\* those of the byte order mark left out, consumed since the last consumed
\* newline: each character counts once, also one put back, one processed
\* again after a reallocation and one put together from two slices.
C28_ColumnCountsCharactersOnce ==
    /\ []((phase = "read" /\ file_position = 0) => hojson_context.column = 0)
    /\ [][(Parse /\ phase' # "fault") =>
            IF WentOn THEN hojson_context'.column = ColumnAfter(TextUpTo(Consumed'))
            ELSE hojson_context'.column = hojson_context.column]_vars

(***************************************************************************)
(* Numbers with a point and no digit beside it                             *)
(***************************************************************************)
\* No VALUE event is returned for a document with the given flaw
NoValue(flaw) ==
    (Flaw = flaw /\ Driven) => \A i \in 1..Len(events) : events[i].code # HOJSON_VALUE

\* C29: a point where a value is expected, and a point that ends a number
\* (followed at once by whitespace, a comma or a closing bracket), make
\* hojson_parse return SYNTAX and no VALUE event.
C29_LoneDotIsSyntax ==
    /\ NoValue("leading dot") /\ StopsAt("leading dot")
    /\ NoValue("trailing dot") /\ StopsAt("trailing dot")

(***************************************************************************)
(* The character processed again after a reallocation                      *)
(***************************************************************************)
\* The context moved to a buffer of twice the length, and the call on the
\* current slice made from there
Doubled(P) ==
    hojson_realloc(P, IF P.buffer = HeapA THEN HeapB ELSE HeapA, 2 * P.buffer_length)
Retried(P) == hojson_parse(Doubled(P), content_pointer, Len(content), content, signed_char)

\* The states a character that does not fit is met in
AppendingStates ==
    {HOJSON_STATE_NONE, HOJSON_STATE_NAME, HOJSON_STATE_VALUE_EXPECTED,
     HOJSON_STATE_STRING_VALUE, HOJSON_STATE_ESCAPE, HOJSON_STATE_UNICODE_4,
     HOJSON_STATE_NUMBER_VALUE}

\* C30: when hojson_parse returns INSUFFICIENT_MEMORY, hojson_realloc puts the
\* parser back in the state the character was met in, and the next call
\* processes that character with the effect it would have had in a buffer
\* that sufficed: the call made after the reallocation leaves what the same
\* call leaves when the buffer is doubled before it (so the character of a
\* \uXXXX escape is appended as the code point of its four digits).
C30_ReplayAfterRealloc ==
    [][(Parse /\ code' = HOJSON_ERROR_INSUFFICIENT_MEMORY) =>
          /\ Doubled(hojson_context').state = hojson_context'.error_return_state
          /\ Doubled(hojson_context').state \in AppendingStates
          /\ Retried(hojson_context') = Retried(hojson_context)]_vars

(***************************************************************************)
(* A closing bracket where a value is expected                             *)
(***************************************************************************)
\* No event of the given code is returned for a document with the given flaw
NoEvent(flaw, c) ==
    (Flaw = flaw /\ Driven) => \A i \in 1..Len(events) : events[i].code # c

\* C31: where a value is expected a closing bracket is taken only for an
\* array that has no element yet: the } met where the value of a member is
\* expected is refused with an error, and no OBJECT_END is returned for it.
C31_CloserNeedsEmptyArray ==
    /\ NoEvent("no value", HOJSON_OBJECT_END)
    /\ NeverEnds("no value")
    /\ StopsAt("no value")

(***************************************************************************)
(* The clean-up deferred to the next call                                  *)
(***************************************************************************)
\* The node that is on top once the work deferred is done is owed a clean-up
CleanUpDue(P) ==
    /\ P.stack # NULL
    /\ LET Q == DeferredWork(P) IN
       /\ ~Q.fault
       /\ Q.stack # NULL
       /\ HasFlag(P.nodes[Q.stack - Q.buffer].flags, HOJSON_FLAG_POST_VALUE_CLEAN_UP)

\* The flags of a node that are about the value in hand
ValueFlags ==
    <<HOJSON_FLAG_HAS_NAME, HOJSON_FLAG_COMMA, HOJSON_FLAG_DECIMAL, HOJSON_FLAG_EXPONENT,
      HOJSON_FLAG_PLUS_OR_MINUS>>

\* C32: once the clean-up deferred to the start of the next call has run, the
\* scratch of the node on top is empty and zeroed, whatever its length was:
\* end is one byte before data, every byte from data to the old end is zero,
\* name and string_value are null, value_type is none, and the flags about
\* the name, the comma and the number are clear.
C32_CleanUpEmptiesScratch ==
    (phase # "fault" /\ CleanUpDue(hojson_context)) =>
        LET Q == DeferredWork(hojson_context)
            top == HOJSON_STACK(Q)
            old == hojson_context.nodes[Q.stack - Q.buffer] IN
        /\ top.end = StackData(Q) - 1
        /\ \A addr \in StackData(Q)..old.end : Q.mem[addr - Q.buffer + 1] = 0
        /\ Q.name = NULL
        /\ Q.string_value = NULL
        /\ Q.value_type = HOJSON_TYPE_NONE
        /\ \A i \in 1..Len(ValueFlags) : ~HasFlag(top.flags, ValueFlags[i])

(***************************************************************************)
(* The buffer that is full                                                 *)
(***************************************************************************)
\* C33: once hojson_parse returned INSUFFICIENT_MEMORY, every further call
\* returns it again and leaves the context, the input position and the buffer
\* as they are, until hojson_realloc is called with a longer buffer; a call
\* of hojson_realloc with no buffer, or with one that is not longer, changes
\* nothing and leaves the parser out of memory.
C33_FullUntilRealloc ==
    /\ [][ParseFull => /\ refused' = HOJSON_ERROR_INSUFFICIENT_MEMORY
                       /\ hojson_context' = hojson_context]_vars
    /\ [][ReallocInvalid => hojson_context' = hojson_context]_vars
    /\ []((phase = "realloc" /\ Driven) =>
              hojson_context.state = HOJSON_STATE_ERROR_INSUFFICIENT_MEMORY)
    /\ [][Realloc => /\ hojson_context'.buffer_length > hojson_context.buffer_length
                     /\ hojson_context'.state = hojson_context.error_return_state]_vars

\* A call made on the full buffer was answered, with a node on the stack and
\* the other array passed than the one adopted
C33_Witness ==
    /\ phase = "realloc"
    /\ refused = HOJSON_ERROR_INSUFFICIENT_MEMORY
    /\ code = HOJSON_ERROR_INSUFFICIENT_MEMORY
    /\ hojson_context.stack # NULL
    /\ hojson_context.iterator > hojson_context.json
    /\ again = 0

(***************************************************************************)
(* The chain of parents                                                    *)
(***************************************************************************)
\* The nodes met from the top of the stack along the parent links
StackChain ==
    NodeChain(hojson_context, hojson_context.stack,
              Cardinality(DOMAIN hojson_context.nodes) + 1)

\* A call returned after the BEGIN event of the root and before the end of
\* the document
InsideDocument ==
    phase # "fault" /\ events # <<>> /\ hojson_context.state # HOJSON_STATE_DONE

\* The chain ends in a node that has no parent
SingleRooted ==
    LET chain == StackChain IN
    chain # <<>> /\ hojson_context.nodes[chain[Len(chain)]].parent = NULL

\* 1 while the depth of the container just begun is still to be raised
DepthPending ==
    IF HasFlag(HOJSON_STACK(hojson_context).flags, HOJSON_FLAG_INCREMENT_DEPTH) THEN 1 ELSE 0

\* C34, as stated: at every return of hojson_parse between the BEGIN event of
\* the root and END_OF_DOCUMENT the parent links from the top of the stack
\* form one chain that ends in a null parent, and the chain has depth nodes.
C34_ChainLengthIsDepth ==
    InsideDocument => SingleRooted /\ Len(StackChain) = hojson_context.depth

\* C34, amended: the chain has depth nodes, and one more at the return of a
\* BEGIN event, whose increment of depth is deferred to the next call.
C34_ChainLengthIsDepthOnceRaised ==
    InsideDocument => SingleRooted /\ Len(StackChain) = hojson_context.depth + DepthPending

\* The BEGIN event of an array in an object was returned: two nodes on the
\* chain, and depth still to be raised to 2
C34_Witness ==
    /\ InsideDocument
    /\ code = HOJSON_ARRAY_BEGIN
    /\ Len(StackChain) = 2
    /\ hojson_context.depth = 1
    /\ DepthPending = 1
    /\ hojson_context.nodes[StackChain[1]].parent = hojson_context.buffer

(***************************************************************************)
(* Escapes that have no encoding                                           *)
(***************************************************************************)
MaxCodePoint == 1114111
Surrogates == 55296..57343

\* The surrogates, and values of the uint32_t above the last code point
NotEncodable == Surrogates \cup {MaxCodePoint + 1, 2 * MaxCodePoint, MaxInt31, UINT32_MAX}

\* The characters of the name or string returned with the event are those
\* owed (its terminator is not looked at here)
Carries(read, text) == ~read.null /\ read.text = Encoded(text, file_encoding)

\* C35: hojson_encode_character gives no bytes for a surrogate or a value
\* above 0x10FFFF in any encoding, so the \uXXXX escape of a surrogate adds
\* nothing to a name or a string, raises no error, and the characters after
\* it are appended as if the escape were not there.
C35_SurrogateEscapeAppendsNothing ==
    /\ (phase = "read" /\ file_position = 0 /\ Flaw = "lone surrogate") =>
           \A v \in NotEncodable : \A encoding \in Encodings :
               hojson_encode_character(v, encoding).bytes = 0
    /\ (Driven /\ Delivered /\ Flaw = "lone surrogate") =>
           /\ code \notin {HOJSON_ERROR_SYNTAX, HOJSON_ERROR_TOKEN_MISMATCH,
                           HOJSON_ERROR_INTERNAL, HOJSON_ERROR_INVALID_INPUT}
           /\ phase \notin {"end of file", "fault"}
           /\ \A i \in 1..Len(events) :
                 /\ events[i].code = HOJSON_NAME => Carries(events[i].name, <<CHR.a>>)
                 /\ events[i].code = HOJSON_VALUE =>
                        /\ events[i].type = HOJSON_TYPE_STRING
                        /\ Carries(events[i].string, <<CHR.b>>)
           /\ phase = "done" =>
                 /\ code = HOJSON_END_OF_DOCUMENT
                 /\ Codes(events) = <<HOJSON_OBJECT_BEGIN, HOJSON_NAME, HOJSON_VALUE,
                                      HOJSON_OBJECT_END>>

\* The string after the escaped surrogate was returned, in a buffer that had
\* to be reallocated on the way
C35_Witness ==
    /\ Flaw = "lone surrogate"
    /\ Driven
    /\ code = HOJSON_VALUE
    /\ events # <<>>
    /\ Carries(events[Len(events)].string, <<CHR.b>>)
    /\ hojson_context.buffer = HeapB

(***************************************************************************)
(* The wrong closer after a comma                                          *)
(***************************************************************************)
\* C36: a closer that is of the wrong kind and also directly follows a comma
\* is answered with TOKEN_MISMATCH, never with the syntax error of a trailing
\* comma: the kind of the bracket is tested first.
C36_MismatchBeforeTrailingComma ==
    /\ NeverEnds("mismatch after comma")
    /\ StopsAt("mismatch after comma")
    /\ (Driven /\ Delivered /\ Flaw = "mismatch after comma") => code # HOJSON_ERROR_SYNTAX

\* The } after the comma of [1, was refused as a mismatch, with the comma
\* still noted on the array
C36_Witness ==
    /\ FailedAt("mismatch after comma", 1)
    /\ code = HOJSON_ERROR_TOKEN_MISMATCH
    /\ Consumed = ErrorPlace
    /\ ClosedAfterComma(hojson_context)
    /\ hojson_context.state = HOJSON_STATE_ERROR_TOKEN_MISMATCH

(***************************************************************************)
(* The internal error                                                      *)
(***************************************************************************)
\* C37: HOJSON_ERROR_INTERNAL is never returned. No state from NAME_EXPECTED
\* to POST_VALUE is held, or kept to be resumed, with the stack empty, so the
\* test of lines 396-401 never fires; hojson_begin_token is given { or [ only,
\* so lines 920-922 are never reached.
C37_InternalNeverReturned ==
    phase # "fault" =>
        /\ code # HOJSON_ERROR_INTERNAL
        /\ refused # HOJSON_ERROR_INTERNAL
        /\ hojson_context.state # HOJSON_STATE_ERROR_INTERNAL
        /\ (/\ hojson_context.state >= HOJSON_STATE_NAME_EXPECTED
            /\ hojson_context.state < HOJSON_STATE_DONE) => hojson_context.stack # NULL
        /\ hojson_context.error_return_state >= HOJSON_STATE_NAME_EXPECTED =>
               hojson_context.stack # NULL

\* A further call was made once the root was popped: the stack is empty, the
\* state is DONE and the call returned END_OF_DOCUMENT again
C37_Witness ==
    /\ phase = "done"
    /\ again > 0
    /\ code = HOJSON_END_OF_DOCUMENT
    /\ hojson_context.stack = NULL
    /\ hojson_context.state = HOJSON_STATE_DONE

(***************************************************************************)
(* The terminator of a value's text                                        *)
(***************************************************************************)
\* C38: when VALUE is returned with a string, string_value points into the
\* buffer and the characters there are followed, inside the buffer, by a zero
\* terminator of one byte (of two in UTF-16), whatever the lengths of the
\* buffer and of the string; and the digits of a number kept at string_value
\* for the conversion are followed by a zero byte inside the buffer as well.
C38_ValueTextTerminatedInBuffer ==
    /\ (/\ phase # "fault"
        /\ code = HOJSON_VALUE
        /\ hojson_context.value_type = HOJSON_TYPE_STRING) =>
           /\ hojson_context.string_value # NULL
           /\ InBuffer(hojson_context, hojson_context.string_value, 1)
           /\ TextAt(hojson_context, hojson_context.string_value).ok
    /\ (/\ hojson_context.state = HOJSON_STATE_NUMBER_VALUE
        /\ hojson_context.string_value # NULL) =>
           CString(hojson_context, hojson_context.string_value).ok

(***************************************************************************)
(* The value fields at events that carry no value                          *)
(***************************************************************************)
ValuelessCodes ==
    {HOJSON_NAME, HOJSON_OBJECT_BEGIN, HOJSON_ARRAY_BEGIN, HOJSON_OBJECT_END,
     HOJSON_ARRAY_END, HOJSON_END_OF_DOCUMENT}

\* C39: whenever NAME, OBJECT_BEGIN, ARRAY_BEGIN, OBJECT_END, ARRAY_END or
\* END_OF_DOCUMENT is returned, value_type is none, string_value is null and
\* integer_value, float_value and bool_value are zero, also where the name
\* was written with \uXXXX escapes, which use integer_value on the way.
C39_NoValueLeftAtOtherEvents ==
    (phase # "fault" /\ code \in ValuelessCodes) =>
        /\ hojson_context.value_type = HOJSON_TYPE_NONE
        /\ hojson_context.string_value = NULL
        /\ hojson_context.integer_value = 0
        /\ hojson_context.float_value = FloatZero
        /\ hojson_context.bool_value = 0

\* The NAME event of the name written é was returned, after two values
\* of other members or none
C39_Witness ==
    /\ phase # "fault"
    /\ Driven
    /\ code = HOJSON_NAME
    /\ events # <<>>
    /\ Carries(events[Len(events)].name, <<CHR.eacute>>)
    /\ hojson_context.name # NULL
    /\ hojson_context.integer_value = 0

(***************************************************************************)
(* Progress of the loop and of the driver                                  *)
(***************************************************************************)
\* The context with which the call on the slice given enters the loop of
\* line 394, or with which it returns before it (lines 309-391)
AtLoopHead(P, json, json_length, data, signed) ==
    LET P0 == [P EXCEPT !.returned = FALSE, !.ret = HOJSON_NO_OP] IN
    IF InvalidInput(P0, json, json_length) THEN Return(P0, HOJSON_ERROR_INVALID_INPUT)
    ELSE LET P1 == DeferredWork(P0) IN
         IF P1.fault \/ P1.returned THEN P1
         ELSE LET P2 == ResumeOrReturn(P1, json, json_length, data, signed) IN
              IF P2.fault \/ P2.returned THEN P2
              ELSE AdoptInput(P2, json, json_length)

\* Every iteration of the loop, from the context given on, returns or leaves
\* the iterator further in the slice than it found it
RECURSIVE EveryIterationAdvances(_, _, _, _, _)
EveryIterationAdvances(P, json, json_length, data, signed) ==
    IF P.fault \/ P.returned \/ ~(P.state >= HOJSON_STATE_NONE /\ P.state <= HOJSON_STATE_DONE)
    THEN TRUE
    ELSE LET Q == ParseIteration(P, json, json_length, data, signed) IN
         /\ Q.fault \/ Q.returned \/ Q.iterator > P.iterator
         /\ EveryIterationAdvances(Q, json, json_length, data, signed)

\* The call returned the VALUE event of a number
NumberEnded(P) ==
    /\ P.ret = HOJSON_VALUE
    /\ P.value_type \in {HOJSON_TYPE_INTEGER, HOJSON_TYPE_FLOAT}

\* The context with which the call the driver is about to make enters the loop
NextLoopHead ==
    AtLoopHead(hojson_context, content_pointer, Len(content), content, signed_char)

\* The call the driver made returned an event
EventReturned == Parse /\ code' > HOJSON_END_OF_DOCUMENT /\ phase' # "fault"

\* C40: every call of hojson_parse ends: each iteration of its loop returns
\* or leaves the iterator further in the slice.  And the driver is not handed
\* event after event with the input standing still: a call that returns an
\* event has moved the iterator, but for the VALUE of a number, whose closing
\* character is left to be read again, and the call after that one moves it.
C40_EveryCallProgresses ==
    /\ [](phase = "parse" =>
              EveryIterationAdvances(NextLoopHead, content_pointer, Len(content),
                                     content, signed_char))
    /\ [][(EventReturned /\ hojson_context'.iterator <= NextLoopHead.iterator) =>
              /\ NumberEnded(hojson_context')
              /\ hojson_context'.iterator = NextLoopHead.iterator]_vars
    /\ [][(EventReturned /\ NumberEnded(hojson_context)) =>
              hojson_context'.iterator > NextLoopHead.iterator]_vars

\* The VALUE of a number was returned by a call that found the character that
\* ends it at the start of its slice, and left the iterator there
C40_Witness ==
    /\ phase = "parse"
    /\ Driven
    /\ alternate
    /\ chunk > 0
    /\ file_position > chunk
    /\ NumberEnded(hojson_context)
    /\ code = HOJSON_VALUE
    /\ hojson_context.iterator = hojson_context.json
    /\ hojson_context.json = content_pointer
====
